---- MODULE Spec2Model ----
(***************************************************************************)
(* Orthanc: the HTTP response state machine (Core/HttpServer/HttpOutput)   *)
(* and the server index (OrthancServer/ServerIndex).                       *)
(*                                                                         *)
(* SpecHttp  : one HttpOutput::StateMachine and the stream it writes to.   *)
(* SpecIndex : one ServerIndex, its database and its delete listener.      *)
(***************************************************************************)
EXTENDS Integers, Sequences, FiniteSets

VARIABLES
  sm,             \* HttpOutput::StateMachine: its fields
  stream,         \* what the IHttpOutputStream received, in order
  httpCall,       \* the last call on the state machine and its outcome
  httpPre,        \* the state machine and the stream when that call was made
  sendBodyCalled, \* whether SendBody was ever called on the state machine
  db,             \* DatabaseWrapper: the committed tables of the index
  listener,       \* Internals::ServerIndexListener: its fields
  removedFiles,   \* ServerContext::RemoveFile: the uuids removed from the storage
  indexCall,      \* the last ServerIndex operation and its outcome
  mutex_,         \* ServerIndex::mutex_: the thread that holds it, or Unlocked
  threads,        \* the request threads and the flush thread: their position
                  \* in a ServerIndex operation and its local variables
  anonymizationSequence, \* GlobalProperty_AnonymizationSequence in the database
  restCall,       \* the last REST handler of OrthancRestAnonymizeModify and its outcome
  callbacks,      \* the SignalRemainingAncestor callbacks since the last Reset
  alive           \* whether the ServerIndex object has not been destroyed yet

httpVars == <<sm, stream, httpCall, httpPre, sendBodyCalled>>
indexVars == <<db, listener, removedFiles, indexCall>>
threadVars == <<mutex_, threads>>
restVars == <<anonymizationSequence, restCall>>
vars == <<sm, stream, httpCall, httpPre, sendBodyCalled,
          db, listener, removedFiles, indexCall, mutex_, threads,
          anonymizationSequence, restCall, callbacks, alive>>

----------------------------------------------------------------------------
(* Bounds of the model *)

\* the largest declared content length and body chunk
MaxLen == 3
\* the largest number of header lines kept in headers_
MaxHeaders == 2
\* Store is no longer called once the change log holds this many rows
MaxChanges == 6
\* the same, where two series are filled
MaxSeriesChanges == 9

----------------------------------------------------------------------------
(* HttpOutput::StateMachine *)

HttpStatus_200_Ok == 200
HttpStatus_301_MovedPermanently == 301
HttpStatus_401_Unauthorized == 401
HttpStatus_404_NotFound == 404
HttpStatus_405_MethodNotAllowed == 405

HttpStatuses == {HttpStatus_200_Ok, HttpStatus_404_NotFound}

\* the strings the callers pass
HeaderNames == {"Allow", "Location"}
HeaderValues == {"a"}

\* The outcome of a call: the object, the stream, and the exception thrown.
Return(w) == [w EXCEPT !.err = "None"]

Throw(w, errorCode) == [w EXCEPT !.err = errorCode]

StateMachine(isKeepAlive, garbage) ==
  [state_ |-> "WritingHeader",
   status_ |-> HttpStatus_200_Ok,
   hasContentLength_ |-> FALSE,
   contentLength_ |-> garbage,    \* not initialized by the constructor
   contentPosition_ |-> 0,
   keepAlive_ |-> isKeepAlive,
   headers_ |-> << >>]

SetHttpStatus(w, status) ==
  IF w.sm.state_ # "WritingHeader"
  THEN Throw(w, "BadSequenceOfCalls")
  ELSE Return([w EXCEPT !.sm.status_ = status])

SetContentLength(w, length) ==
  IF w.sm.state_ # "WritingHeader"
  THEN Throw(w, "BadSequenceOfCalls")
  ELSE Return([w EXCEPT !.sm.hasContentLength_ = TRUE,
                        !.sm.contentLength_ = length])

AddHeader_NoStateCheck(w, header, value) ==
  Return([w EXCEPT !.sm.headers_ = Append(@, header \o ": " \o value \o "\r\n")])

AddHeader(w, header, value) ==
  IF w.sm.state_ # "WritingHeader"
  THEN Throw(w, "BadSequenceOfCalls")
  ELSE Return([w EXCEPT !.sm.headers_ = Append(@, header \o ": " \o value \o "\r\n")])

SetContentType(w, contentType) ==
  AddHeader(w, "Content-Type", contentType)

SetContentFilename(w, filename) ==
  AddHeader(w, "Content-Disposition", "filename=\"" \o filename \o "\"")

SetCookie(w, cookie, value) ==
  IF w.sm.state_ # "WritingHeader"
  THEN Throw(w, "BadSequenceOfCalls")
  ELSE AddHeader(w, "Set-Cookie", cookie \o "=" \o value)

ClearHeaders(w) ==
  IF w.sm.state_ # "WritingHeader"
  THEN Throw(w, "BadSequenceOfCalls")
  ELSE Return([w EXCEPT !.sm.headers_ = << >>])

\* The Content-Length written in the header by the first SendBody(length).
HeaderContentLength_AlwaysChunk(m, length) == length

HeaderContentLength(m, length) ==
  IF m.hasContentLength_ THEN m.contentLength_ ELSE length

\* The first SendBody: the status line and the headers go to the stream.
SendHeader_KeepsDeclaredLength(w, length) ==
  LET s == [isHeader |-> TRUE,
            status |-> w.sm.status_,
            keepAlive |-> w.sm.keepAlive_,
            headers |-> w.sm.headers_,
            contentLength |-> HeaderContentLength(w.sm, length),
            size |-> 0]
  IN [w EXCEPT !.sm.state_ = "WritingBody",
               !.stream = @ \o << [onHttpStatusReceived |-> w.sm.status_], s >>]

SendHeader(w, length) ==
  LET m1 == IF w.sm.status_ # HttpStatus_200_Ok
            THEN [w.sm EXCEPT !.hasContentLength_ = FALSE]
            ELSE w.sm
      s == [isHeader |-> TRUE,
            status |-> w.sm.status_,
            keepAlive |-> w.sm.keepAlive_,
            headers |-> w.sm.headers_,
            contentLength |-> HeaderContentLength(m1, length),
            size |-> 0]
  IN [w EXCEPT !.sm = [m1 EXCEPT !.state_ = "WritingBody"],
               !.stream = @ \o << [onHttpStatusReceived |-> w.sm.status_], s >>]

ExceedsDeclaredLength_ChunkOnly(m, length) ==
  m.hasContentLength_ /\ length > m.contentLength_

ExceedsDeclaredLength(m, length) ==
  m.hasContentLength_ /\ m.contentPosition_ + length > m.contentLength_

BodyComplete_Always(m) == TRUE

BodyComplete_WhenPositionIsLength(m) == m.contentPosition_ = m.contentLength_

BodyComplete(m) ==
  ~m.hasContentLength_ \/ m.contentPosition_ = m.contentLength_

\* SendBody once the state is Done
SendBodyWhenDone_Accepts(w, length) == Return(w)

SendBodyWhenDone(w, length) ==
  IF length = 0 THEN Return(w) ELSE Throw(w, "BadSequenceOfCalls")

HeaderIsDue_UntilDone(m) == m.state_ # "Done"

\* whether SendBody has the header to write first
HeaderIsDue(m) == m.state_ = "WritingHeader"

\* SendBody with the test of the declared length moved before the header
SendBody_LengthCheckedFirst(w, length) ==
  IF w.sm.state_ = "Done"
  THEN SendBodyWhenDone(w, length)
  ELSE
    IF ExceedsDeclaredLength(w.sm, length)
    THEN Throw(w, "BadSequenceOfCalls")
    ELSE
      LET w1 == IF HeaderIsDue(w.sm) THEN SendHeader(w, length) ELSE w
          w2 == IF length > 0
                THEN [w1 EXCEPT
                        !.stream = Append(@, [isHeader |-> FALSE, size |-> length]),
                        !.sm.contentPosition_ = @ + length]
                ELSE w1
      IN Return(IF BodyComplete(w2.sm)
                THEN [w2 EXCEPT !.sm.state_ = "Done"]
                ELSE w2)

SendBody(w, length) ==
  IF w.sm.state_ = "Done"
  THEN SendBodyWhenDone(w, length)
  ELSE
    LET w1 == IF HeaderIsDue(w.sm) THEN SendHeader(w, length) ELSE w
    IN IF ExceedsDeclaredLength(w1.sm, length)
       THEN Throw(w1, "BadSequenceOfCalls")
       ELSE
         LET w2 == IF length > 0
                   THEN [w1 EXCEPT
                           !.stream = Append(@, [isHeader |-> FALSE, size |-> length]),
                           !.sm.contentPosition_ = @ + length]
                   ELSE w1
         IN Return(IF BodyComplete(w2.sm)
                   THEN [w2 EXCEPT !.sm.state_ = "Done"]
                   ELSE w2)

----------------
(* HttpOutput *)

\* the codes that have a method of their own
DedicatedStatuses ==
  {HttpStatus_200_Ok, HttpStatus_301_MovedPermanently,
   HttpStatus_401_Unauthorized, HttpStatus_405_MethodNotAllowed}

SendStatus_KeepsHeaders(w, status) ==
  IF status \in DedicatedStatuses
  THEN Throw(w, "ParameterOutOfRange")
  ELSE LET b == SetHttpStatus(w, status)
       IN IF b.err # "None" THEN b ELSE SendBody(b, 0)

SendStatus(w, status) ==
  IF status \in DedicatedStatuses
  THEN Throw(w, "ParameterOutOfRange")
  ELSE LET a == ClearHeaders(w)
       IN IF a.err # "None" THEN a
          ELSE LET b == SetHttpStatus(a, status)
               IN IF b.err # "None" THEN b ELSE SendBody(b, 0)

----------------------------------------------------------------------------
(* The DICOM summaries and files given to the index *)

\* no resource (a parent that does not exist)
Null == << >>
\* no DicomValue (TestAndGetValue returning NULL)
NoValue == "(null)"
\* Json::nullValue
JsonNull == [null |-> TRUE]

ResourceType_Patient == 1
ResourceType_Study == 2
ResourceType_Series == 3
ResourceType_Instance == 4

ResourceTypes ==
  {ResourceType_Patient, ResourceType_Study, ResourceType_Series, ResourceType_Instance}

PatientTags == {"PatientID", "PatientName"}
StudyTags == {"StudyInstanceUID", "StudyDescription"}
SeriesTags ==
  {"SeriesInstanceUID", "NumberOfSlices", "ImagesInAcquisition", "CardiacNumberOfImages"}
InstanceTags == {"SOPInstanceUID", "InstanceNumber", "ImageIndex"}

\* DicomMap::TestAndGetValue: the value of a tag, or NoValue when it is absent
TestAndGetValue(map, tag) == IF tag \in DOMAIN map THEN map[tag] ELSE NoValue

\* DicomMap::ExtractPatientInformation and the like: the tags of one level
ExtractTags(map, tags) == [tag \in DOMAIN map \cap tags |-> map[tag]]

ExtractPatientInformation(map) == ExtractTags(map, PatientTags)
ExtractStudyInformation(map) == ExtractTags(map, StudyTags)
ExtractSeriesInformation(map) == ExtractTags(map, SeriesTags)
ExtractInstanceInformation(map) == ExtractTags(map, InstanceTags)

\* DicomInstanceHasher: H is injective, so the hashed tuple stands for its hash
HashPatient(map) == <<map.PatientID>>
HashStudy(map) == <<map.PatientID, map.StudyInstanceUID>>
HashSeries(map) == <<map.PatientID, map.StudyInstanceUID, map.SeriesInstanceUID>>
HashInstance(map) ==
  <<map.PatientID, map.StudyInstanceUID, map.SeriesInstanceUID, map.SOPInstanceUID>>

\* FileInfo
FileInfo(uuid, contentType) == [uuid |-> uuid, contentType |-> contentType]

----------------------------------------------------------------------------
(* DatabaseWrapper: the tables of the index.  A row of Resources is named   *)
(* by its public id, which stands for its internal id as well.             *)

EmptyDatabase ==
  [resources |-> << >>,       \* public id -> [resourceType, parentId]
   mainDicomTags |-> << >>,   \* public id -> DicomMap
   attachedFiles |-> << >>,   \* public id -> (content type -> FileInfo)
   metadata |-> << >>,        \* public id -> (metadata type -> string)
   changes |-> << >>,         \* the change log, oldest first
   exportedResources |-> << >>]  \* the export log, oldest first

\* f with the pair k :> v added or replaced
Put(f, k, v) == [x \in DOMAIN f \cup {k} |-> IF x = k THEN v ELSE f[x]]

\* f without the keys in ks
Without(f, ks) == [x \in DOMAIN f \ ks |-> f[x]]

Db_LookupResource(d, publicId) == publicId \in DOMAIN d.resources

Db_GetResourceType(d, id) == d.resources[id].resourceType

Db_LookupParent(d, id) == d.resources[id].parentId

Db_GetChildrenInternalId(d, id) ==
  {c \in DOMAIN d.resources : d.resources[c].parentId = id}

Db_LogChange(d, changeType, id, resourceType) ==
  [d EXCEPT !.changes =
     Append(@, [seq |-> Len(@) + 1, changeType |-> changeType,
                publicId |-> id, resourceType |-> resourceType])]

NewResourceChange(resourceType) ==
  CASE resourceType = ResourceType_Patient -> "NewPatient"
    [] resourceType = ResourceType_Study -> "NewStudy"
    [] resourceType = ResourceType_Series -> "NewSeries"
    [] resourceType = ResourceType_Instance -> "NewInstance"

Db_CreateResource(d, publicId, resourceType) ==
  Db_LogChange(
    [d EXCEPT !.resources =
                 Put(@, publicId, [resourceType |-> resourceType, parentId |-> Null]),
              !.mainDicomTags = Put(@, publicId, << >>),
              !.attachedFiles = Put(@, publicId, << >>),
              !.metadata = Put(@, publicId, << >>)],
    NewResourceChange(resourceType), publicId, resourceType)

Db_AttachChild(d, parent, child) ==
  [d EXCEPT !.resources[child].parentId = parent]

Db_SetMainDicomTags(d, id, tags) ==
  [d EXCEPT !.mainDicomTags[id] = tags]

Db_SetMetadata(d, id, type, value) ==
  [d EXCEPT !.metadata[id] = Put(@, type, value)]

\* the empty string when the resource has no such metadata
Db_GetMetadata(d, id, type) ==
  IF type \in DOMAIN d.metadata[id] THEN d.metadata[id][type] ELSE ""

\* one attachment per content type: a second one is refused by the table
Db_CanAddAttachment(d, id, attachment) ==
  attachment.contentType \notin DOMAIN d.attachedFiles[id]

Db_AddAttachment(d, id, attachment) ==
  [d EXCEPT !.attachedFiles[id] = Put(@, attachment.contentType, attachment)]

Db_LookupAttachment(d, id, contentType) ==
  contentType \in DOMAIN d.attachedFiles[id]

\* id and everything below it
RECURSIVE Db_Subtree(_, _)
Db_Subtree(d, id) ==
  {id} \cup UNION {Db_Subtree(d, c) : c \in Db_GetChildrenInternalId(d, id)}

\* the rows removed with id: its subtree, and going up every ancestor whose
\* children are all removed
RECURSIVE Db_Removed(_, _, _)
Db_Removed(d, top, removed) ==
  LET parent == Db_LookupParent(d, top)
  IN IF parent # Null /\ Db_GetChildrenInternalId(d, parent) \subseteq removed
     THEN Db_Removed(d, parent, removed \cup {parent})
     ELSE [top |-> top, rows |-> removed]

\* a set of values as a sequence, in some order
RECURSIVE SeqOf(_)
SeqOf(S) ==
  IF S = {} THEN << >>
  ELSE LET x == CHOOSE y \in S : TRUE IN <<x>> \o SeqOf(S \ {x})

\* DatabaseWrapper::DeleteResource: the database without the removed rows, and
\* the callbacks the listener receives while they are removed
Db_DeleteResource(d, id) ==
  LET r == Db_Removed(d, id, Db_Subtree(d, id))
      parent == Db_LookupParent(d, r.top)
      rows == SeqOf({<<x, c>> \in r.rows \X UNION {DOMAIN d.attachedFiles[y] : y \in r.rows} :
                       c \in DOMAIN d.attachedFiles[x]})
  IN [db |-> [d EXCEPT !.resources = Without(@, r.rows),
                       !.mainDicomTags = Without(@, r.rows),
                       !.attachedFiles = Without(@, r.rows),
                       !.metadata = Without(@, r.rows)],
      removed |-> r.rows,
      signals |->
        [i \in 1..Len(rows) |->
           [signal |-> "FileDeleted",
            fileUuid |-> d.attachedFiles[rows[i][1]][rows[i][2]].uuid]]
        \o (IF parent = Null THEN << >>
            ELSE << [signal |-> "RemainingAncestor",
                     parentType |-> Db_GetResourceType(d, parent),
                     publicId |-> parent] >>)]

----------------
(* Internals::ServerIndexListener *)

ServerIndexListener(garbage) ==
  [hasRemainingLevel_ |-> FALSE,
   remainingType_ |-> garbage,      \* not initialized by the constructor
   remainingPublicId_ |-> << >>]

Reset_KeepsLevel(l) == l

Reset(l) == [l EXCEPT !.hasRemainingLevel_ = FALSE]

SignalRemainingAncestor_KeepsStaleId(l, parentType, publicId) ==
  IF l.hasRemainingLevel_
  THEN IF parentType < l.remainingType_
       THEN [l EXCEPT !.remainingType_ = parentType, !.remainingPublicId_ = publicId]
       ELSE l
  ELSE [l EXCEPT !.hasRemainingLevel_ = TRUE, !.remainingType_ = parentType]

SignalRemainingAncestor(l, parentType, publicId) ==
  IF l.hasRemainingLevel_
  THEN IF parentType < l.remainingType_
       THEN [l EXCEPT !.remainingType_ = parentType, !.remainingPublicId_ = publicId]
       ELSE l
  ELSE [l EXCEPT !.hasRemainingLevel_ = TRUE,
                 !.remainingType_ = parentType,
                 !.remainingPublicId_ = publicId]

SignalFileDeleted_NotForwarded(files, fileUuid) == files

\* forwards to ServerContext::RemoveFile
SignalFileDeleted(files, fileUuid) == Append(files, fileUuid)

\* the listener and the removed files after the callbacks of one
\* DatabaseWrapper::DeleteResource, delivered in order
RECURSIVE Deliver(_, _)
Deliver(lc, signals) ==
  IF signals = << >> THEN lc
  ELSE LET s == Head(signals)
       IN Deliver(
            IF s.signal = "RemainingAncestor"
            THEN [lc EXCEPT !.listener =
                              SignalRemainingAncestor(@, s.parentType, s.publicId)]
            ELSE [lc EXCEPT !.removedFiles = SignalFileDeleted(@, s.fileUuid)],
            Tail(signals))

----------------
(* ServerIndex *)

ToString(resourceType) ==
  CASE resourceType = ResourceType_Patient -> "Patient"
    [] resourceType = ResourceType_Study -> "Study"
    [] resourceType = ResourceType_Series -> "Series"
    [] resourceType = ResourceType_Instance -> "Instance"

GetBasePath(resourceType, publicId) ==
  CASE resourceType = ResourceType_Patient -> <<"/patients/", publicId>>
    [] resourceType = ResourceType_Study -> <<"/studies/", publicId>>
    [] resourceType = ResourceType_Series -> <<"/series/", publicId>>
    [] resourceType = ResourceType_Instance -> <<"/instances/", publicId>>

RemainingAncestor_AlwaysNull(l) == JsonNull

\* target["RemainingAncestor"]
RemainingAncestor(l) ==
  IF l.hasRemainingLevel_
  THEN [Path |-> GetBasePath(l.remainingType_, l.remainingPublicId_),
        Type |-> ToString(l.remainingType_),
        ID |-> l.remainingPublicId_]
  ELSE JsonNull

\* ServerIndex::DeleteResource on the index ix = [db, listener]: the committed
\* database, the listener, the files removed from the storage, the returned
\* bool ("true" or "false") and target["RemainingAncestor"]
DeleteResource_NoCommit(ix, uuid, expectedType) ==
  LET l0 == Reset(ix.listener)
  IN IF ~Db_LookupResource(ix.db, uuid) \/ expectedType # Db_GetResourceType(ix.db, uuid)
     THEN [db |-> ix.db, listener |-> l0, removedFiles |-> << >>,
           result |-> "false", target |-> JsonNull]
     ELSE LET del == Db_DeleteResource(ix.db, uuid)
              lc == Deliver([listener |-> l0, removedFiles |-> << >>], del.signals)
          IN [db |-> ix.db, listener |-> lc.listener, removedFiles |-> lc.removedFiles,
              result |-> "true", target |-> RemainingAncestor(lc.listener)]

DeleteResource(ix, uuid, expectedType) ==
  LET l0 == Reset(ix.listener)
  IN IF ~Db_LookupResource(ix.db, uuid) \/ expectedType # Db_GetResourceType(ix.db, uuid)
     THEN \* the transaction is rolled back
          [db |-> ix.db, listener |-> l0, removedFiles |-> << >>,
           result |-> "false", target |-> JsonNull]
     ELSE LET del == Db_DeleteResource(ix.db, uuid)
              lc == Deliver([listener |-> l0, removedFiles |-> << >>], del.signals)
          IN [db |-> del.db, listener |-> lc.listener, removedFiles |-> lc.removedFiles,
              result |-> "true", target |-> RemainingAncestor(lc.listener)]

\* the largest size_t: it stands for 2^w - 1, w the width of size_t
SizeMax == 2147483647

\* boost::lexical_cast<size_t>: the digits are read as by an input stream, so
\* a minus sign is accepted and the value is negated in size_t
BadLexicalCast == -1

LexicalCast(s) ==
  CASE s = "0" -> 0
    [] s = "1" -> 1
    [] s = "2" -> 2
    [] s = "3" -> 3
    [] s = "-1" -> SizeMax
    [] OTHER -> BadLexicalCast

\* the loop of GetSeriesStatus over the children, in the order the database
\* lists them
RECURSIVE SeriesStatusLoop(_, _, _, _)
SeriesStatusLoop(d, children, expected, instances) ==
  IF children = << >>
  THEN IF Cardinality(instances) = expected THEN "Complete" ELSE "Missing"
  ELSE LET index == LexicalCast(Db_GetMetadata(d, Head(children), "Instance_IndexInSeries"))
       IN IF index = BadLexicalCast THEN "Unknown"
          ELSE IF index <= 0 \/ index > expected THEN "Inconsistent"
          ELSE IF index \in instances THEN "Inconsistent"
          ELSE SeriesStatusLoop(d, Tail(children), expected, instances \cup {index})

GetSeriesStatus_ExpectsItsChildren(d, id, children) ==
  LET expected == LexicalCast(Db_GetMetadata(d, id, "Series_ExpectedNumberOfInstances"))
  IN IF expected = BadLexicalCast THEN "Unknown"
     ELSE SeriesStatusLoop(d, children, Len(children), {})

GetSeriesStatus(d, id, children) ==
  LET expected == LexicalCast(Db_GetMetadata(d, id, "Series_ExpectedNumberOfInstances"))
  IN IF expected = BadLexicalCast THEN "Unknown"
     ELSE SeriesStatusLoop(d, children, expected, {})

\* the orders in which the database may list the rows in S
Orderings(S) ==
  {f \in [1..Cardinality(S) -> S] : \A i, j \in 1..Cardinality(S) : f[i] = f[j] => i = j}

\* the first of the tags that the summary holds, or NoValue
FirstValue(map, tags) ==
  IF \E i \in 1..Len(tags) : tags[i] \in DOMAIN map
  THEN map[tags[CHOOSE i \in 1..Len(tags) :
                  tags[i] \in DOMAIN map /\ \A j \in 1..(i - 1) : tags[j] \notin DOMAIN map]]
  ELSE NoValue

\* Store: the patient/study/series/instance hierarchy of the new instance
CreateHierarchy_SeriesUnderPatient(d, dicomSummary) ==
  LET instance == HashInstance(dicomSummary)
      series == HashSeries(dicomSummary)
      patient == HashPatient(dicomSummary)
  IN IF ~Db_LookupResource(d, series)
     THEN LET a == Db_AttachChild(
                     Db_SetMainDicomTags(
                       Db_CreateResource(d, series, ResourceType_Series),
                       series, ExtractSeriesInformation(dicomSummary)),
                     series, instance)
          IN IF ~Db_LookupResource(a, patient)
             THEN Db_AttachChild(
                    Db_SetMainDicomTags(
                      Db_CreateResource(a, patient, ResourceType_Patient),
                      patient, ExtractPatientInformation(dicomSummary)),
                    patient, series)
             ELSE Db_AttachChild(a, patient, series)
     ELSE Db_AttachChild(d, series, instance)

CreateHierarchy_UpdatesSeries(d, dicomSummary) ==
  LET instance == HashInstance(dicomSummary)
      series == HashSeries(dicomSummary)
      study == HashStudy(dicomSummary)
      patient == HashPatient(dicomSummary)
      a == Db_AttachChild(
             Db_SetMainDicomTags(
               IF ~Db_LookupResource(d, series)
               THEN Db_CreateResource(d, series, ResourceType_Series)
               ELSE d,
               series, ExtractSeriesInformation(dicomSummary)),
             series, instance)
  IN IF ~Db_LookupResource(d, series)
     THEN IF ~Db_LookupResource(a, study)
          THEN LET b == Db_AttachChild(
                          Db_SetMainDicomTags(
                            Db_CreateResource(a, study, ResourceType_Study),
                            study, ExtractStudyInformation(dicomSummary)),
                          study, series)
               IN IF ~Db_LookupResource(b, patient)
                  THEN Db_AttachChild(
                         Db_SetMainDicomTags(
                           Db_CreateResource(b, patient, ResourceType_Patient),
                           patient, ExtractPatientInformation(dicomSummary)),
                         patient, study)
                  ELSE Db_AttachChild(b, patient, study)
          ELSE Db_AttachChild(a, study, series)
     ELSE a

CreateHierarchy(d, dicomSummary) ==
  LET instance == HashInstance(dicomSummary)
      series == HashSeries(dicomSummary)
      study == HashStudy(dicomSummary)
      patient == HashPatient(dicomSummary)
  IN IF ~Db_LookupResource(d, series)
     THEN LET a == Db_AttachChild(
                     Db_SetMainDicomTags(
                       Db_CreateResource(d, series, ResourceType_Series),
                       series, ExtractSeriesInformation(dicomSummary)),
                     series, instance)
          IN IF ~Db_LookupResource(a, study)
             THEN LET b == Db_AttachChild(
                             Db_SetMainDicomTags(
                               Db_CreateResource(a, study, ResourceType_Study),
                               study, ExtractStudyInformation(dicomSummary)),
                             study, series)
                  IN IF ~Db_LookupResource(b, patient)
                     THEN Db_AttachChild(
                            Db_SetMainDicomTags(
                              Db_CreateResource(b, patient, ResourceType_Patient),
                              patient, ExtractPatientInformation(dicomSummary)),
                            patient, study)
                     ELSE Db_AttachChild(b, patient, study)
             ELSE Db_AttachChild(a, study, series)
     ELSE Db_AttachChild(d, series, instance)

\* Store: the files are attached in turn; a file the table refuses throws
RECURSIVE AddAttachments(_, _, _)
AddAttachments(d, instance, attachments) ==
  IF attachments = << >> THEN [db |-> d, threw |-> FALSE]
  ELSE IF ~Db_CanAddAttachment(d, instance, Head(attachments))
       THEN [db |-> d, threw |-> TRUE]
       ELSE AddAttachments(Db_AddAttachment(d, instance, Head(attachments)),
                           instance, Tail(attachments))

\* Store: the metadata of the new instance and of a new series
AttachMetadata(d, dicomSummary, isNewSeries, remoteAet, now) ==
  LET instance == HashInstance(dicomSummary)
      series == HashSeries(dicomSummary)
      d1 == Db_SetMetadata(
              Db_SetMetadata(d, instance, "Instance_ReceptionDate", now),
              instance, "Instance_RemoteAet", remoteAet)
      index == FirstValue(dicomSummary, <<"InstanceNumber", "ImageIndex">>)
      d2 == IF index # NoValue
            THEN Db_SetMetadata(d1, instance, "Instance_IndexInSeries", index)
            ELSE d1
      expected == FirstValue(dicomSummary,
                             <<"NumberOfSlices", "ImagesInAcquisition",
                               "CardiacNumberOfImages">>)
  IN IF isNewSeries /\ expected # NoValue
     THEN Db_SetMetadata(d2, series, "Series_ExpectedNumberOfInstances", expected)
     ELSE d2

\* Whether Store returns early because the instance is already in the index.
AlreadyStored_Never(d, dicomSummary) == FALSE

AlreadyStored(d, dicomSummary) ==
  Db_LookupResource(d, HashInstance(dicomSummary))

\* SQLite::Transaction: the database after a transaction that began on the
\* tables begun and has written the tables current
Rollback_KeepsWrites(begun, current) == current

\* ~Transaction without Commit
Rollback(begun, current) == begun

Commit(begun, current) == current

\* Store when an OrthancException leaves its try block: the transaction t,
\* begun on the tables begun, goes out of scope with the tables thrown written
StoreCatch_NoTransaction(begun, thrown) == thrown

StoreCatch(begun, thrown) == Rollback(begun, thrown)

\* the database calls of Store that may throw an OrthancException; "None"
\* when none does
StoreFaults ==
  {"None", "SetMainDicomTags", "LookupResource", "AddAttachment", "SetMetadata",
   "GetSeriesStatus", "Commit"}

LogCompletedSeries_UnlessUnknown(d, series, seriesStatus) ==
  IF seriesStatus # "Unknown"
  THEN Db_LogChange(d, "CompletedSeries", series, ResourceType_Series)
  ELSE d

\* Store: the change logged when the series of the new instance is complete
LogCompletedSeries(d, series, seriesStatus) ==
  IF seriesStatus = "Complete"
  THEN Db_LogChange(d, "CompletedSeries", series, ResourceType_Series)
  ELSE d

\* ServerIndex::Store on the committed database d, where the database call
\* fault throws: the outcomes [status, db], one for each order in which the
\* database may list the instances of the series
Store(d, dicomSummary, attachments, remoteAet, now, fault) ==
  IF AlreadyStored(d, dicomSummary)
  THEN {[status |-> "AlreadyStored", db |-> Rollback(d, d)]}
  ELSE
    LET instance == HashInstance(dicomSummary)
        series == HashSeries(dicomSummary)
        d0 == Db_CreateResource(d, instance, ResourceType_Instance)
        d1 == Db_SetMainDicomTags(d0, instance, ExtractInstanceInformation(dicomSummary))
        isNewSeries == ~Db_LookupResource(d1, series)
        d2 == CreateHierarchy(d1, dicomSummary)
        added == AddAttachments(d2, instance, attachments)
        d3 == AttachMetadata(added.db, dicomSummary, isNewSeries, remoteAet, now)
        d4(children) ==
          LogCompletedSeries(d3, series, GetSeriesStatus(d3, series, children))
        \* the tables written when the exception is thrown
        thrown(children) ==
          IF fault = "SetMainDicomTags" THEN d0
          ELSE IF fault = "LookupResource" THEN d1
          ELSE IF fault = "AddAttachment" THEN d2
          ELSE IF added.threw \/ fault = "SetMetadata" THEN added.db
          ELSE IF fault = "GetSeriesStatus" THEN d3
          ELSE d4(children)
    IN {IF fault # "None" \/ added.threw
        THEN \* the exception is caught after the transaction went out of scope
             [status |-> "Failure", db |-> StoreCatch(d, thrown(children))]
        ELSE [status |-> "Success", db |-> Commit(d, d4(children))] :
          children \in Orderings(Db_GetChildrenInternalId(d3, series))}

----------------------------------------------------------------------------
(* What the stream received *)

IsHeaderWrite(e) == "isHeader" \in DOMAIN e /\ e.isHeader

IsBodyWrite(e) == "isHeader" \in DOMAIN e /\ ~e.isHeader

RECURSIVE BodyBytes(_)
BodyBytes(s) ==
  IF s = << >> THEN 0
  ELSE (IF IsBodyWrite(Head(s)) THEN Head(s).size ELSE 0) + BodyBytes(Tail(s))

HeaderWrites(s) == SelectSeq(s, IsHeaderWrite)

----------------------------------------------------------------------------
(* The calls a handler makes on one state machine *)

World == [sm |-> sm, stream |-> stream, err |-> "None"]

Call(op, args, w) ==
  /\ sm' = w.sm
  /\ stream' = w.stream
  /\ httpCall' = [op |-> op, args |-> args, err |-> w.err]
  /\ httpPre' = [sm |-> sm, stream |-> stream]
  \* SendStatus calls SendBody unless it has thrown before
  /\ sendBodyCalled' = (\/ sendBodyCalled
                        \/ op = "SendBody"
                        \/ (op = "SendStatus" /\ w.err = "None"))
  /\ UNCHANGED <<indexVars, threadVars, restVars, callbacks, alive>>

\* headers_ is a std::list without a limit: the model stops adding at MaxHeaders
HeaderRoom == sm.state_ = "WritingHeader" => Len(sm.headers_) < MaxHeaders

DoSetHttpStatus ==
  \E status \in HttpStatuses :
    Call("SetHttpStatus", [status |-> status], SetHttpStatus(World, status))

DoSetContentLength ==
  \E length \in 0..MaxLen :
    Call("SetContentLength", [length |-> length], SetContentLength(World, length))

DoAddHeader ==
  /\ HeaderRoom
  /\ \E header \in HeaderNames, value \in HeaderValues :
       Call("AddHeader", [header |-> header, value |-> value], AddHeader(World, header, value))

DoSetContentType ==
  /\ HeaderRoom
  /\ Call("SetContentType", [contentType |-> "text/plain"], SetContentType(World, "text/plain"))

DoSetContentFilename ==
  /\ HeaderRoom
  /\ Call("SetContentFilename", [filename |-> "f.dcm"], SetContentFilename(World, "f.dcm"))

DoSetCookie ==
  /\ HeaderRoom
  /\ Call("SetCookie", [cookie |-> "k", value |-> "v"], SetCookie(World, "k", "v"))

DoClearHeaders ==
  Call("ClearHeaders", [none |-> TRUE], ClearHeaders(World))

DoSendBody ==
  \E length \in 0..MaxLen :
    Call("SendBody", [length |-> length], SendBody(World, length))

HttpNext ==
  \/ DoSetHttpStatus
  \/ DoSetContentLength
  \/ DoAddHeader
  \/ DoSetContentType
  \/ DoSetContentFilename
  \/ DoSetCookie
  \/ DoClearHeaders
  \/ DoSendBody

\* the codes the handlers pass to SendStatus
SendStatusCodes == DedicatedStatuses \cup {HttpStatus_404_NotFound}

DoSendStatus ==
  \E status \in SendStatusCodes :
    Call("SendStatus", [status |-> status], SendStatus(World, status))

\* the calls on HttpOutput, which owns the state machine
HttpOutputNext ==
  \/ HttpNext
  \/ DoSendStatus

HttpInit ==
  /\ \E isKeepAlive \in BOOLEAN, garbage \in 0..MaxLen :
       sm = StateMachine(isKeepAlive, garbage)
  /\ stream = << >>
  /\ httpCall = [op |-> "StateMachine", args |-> [none |-> TRUE], err |-> "None"]
  /\ httpPre = [sm |-> sm, stream |-> stream]
  /\ sendBodyCalled = FALSE

\* the identifiers of the instances given to Store
Identities ==
  { <<"P1", "S1", "Se1", "I1">>, <<"P1", "S1", "Se1", "I2">>,
    <<"P1", "S1", "Se2", "I1">>, <<"P1", "S2", "Se1", "I1">>,
    <<"P2", "S1", "Se1", "I1">> }

\* the tags from which the index in the series and the expected number of
\* instances are taken
NumberTags ==
  { << >>,
    [InstanceNumber |-> "1", NumberOfSlices |-> "1"] }

Merge(f, g) == [x \in DOMAIN f \cup DOMAIN g |-> IF x \in DOMAIN f THEN f[x] ELSE g[x]]

Summaries ==
  { Merge([PatientID |-> i[1], StudyInstanceUID |-> i[2],
           SeriesInstanceUID |-> i[3], SOPInstanceUID |-> i[4]], n) :
      i \in Identities, n \in NumberTags }

\* the files given to Store with a summary
AttachmentLists(dicomSummary) ==
  LET dicom == FileInfo(<<HashInstance(dicomSummary), "dcm">>, "Dicom")
      json == FileInfo(<<HashInstance(dicomSummary), "json">>, "DicomAsJson")
      other == FileInfo(<<HashInstance(dicomSummary), "dcm2">>, "Dicom")
  IN { << >>, <<dicom, json>>, <<dicom, other>> }

\* the public ids a request may name
PublicIds ==
  UNION { {<<i[1]>>, <<i[1], i[2]>>, <<i[1], i[2], i[3]>>, i} : i \in Identities }

IndexCall(op, args, r) ==
  /\ db' = r.db
  /\ listener' = r.listener
  /\ removedFiles' = r.removedFiles
  /\ indexCall' = [op |-> op, args |-> args, result |-> r.result, target |-> r.target]
  /\ UNCHANGED <<httpVars, restVars, callbacks, alive, threadVars>>

DoStore ==
  /\ Len(db.changes) < MaxChanges
  /\ \E dicomSummary \in Summaries :
       \E attachments \in AttachmentLists(dicomSummary) :
         \E r \in Store(db, dicomSummary, attachments, "AET", "20140101T000000", "None") :
           IndexCall("Store", [dicomSummary |-> dicomSummary, attachments |-> attachments],
                     [db |-> r.db, listener |-> listener, removedFiles |-> << >>,
                      result |-> r.status, target |-> JsonNull])

\* DELETE /{patients|studies|series|instances}/{id}: the level of the id, or
\* for the id of an instance another one
ExpectedTypes(uuid) ==
  IF Len(uuid) = ResourceType_Instance
  THEN {ResourceType_Instance, ResourceType_Series}
  ELSE {Len(uuid)}

DoDeleteResource ==
  \E uuid \in PublicIds : \E expectedType \in ExpectedTypes(uuid) :
    IndexCall("DeleteResource", [uuid |-> uuid, expectedType |-> expectedType],
              DeleteResource([db |-> db, listener |-> listener], uuid, expectedType))

IndexNext ==
  \/ DoStore
  \/ DoDeleteResource

IndexInit ==
  /\ db = EmptyDatabase
  /\ \E garbage \in {ResourceType_Patient, ResourceType_Instance} :
       listener = ServerIndexListener(garbage)
  /\ removedFiles = << >>
  /\ indexCall = [op |-> "ServerIndex", args |-> [none |-> TRUE], result |-> "", target |-> JsonNull]

\* the instances stored while the database may fail: two of one series and one
\* of another study of the same patient
FaultSummaries ==
  {s \in Summaries :
     s.PatientID = "P1" /\ s.SeriesInstanceUID = "Se1" /\ "InstanceNumber" \in DOMAIN s}

\* Store during which a database call may throw
DoStoreFault ==
  /\ Len(db.changes) < MaxChanges
  /\ \E dicomSummary \in FaultSummaries :
       \E attachments \in AttachmentLists(dicomSummary) :
         \E fault \in StoreFaults :
           /\ fault = "AddAttachment" => attachments # << >>
           /\ \E r \in Store(db, dicomSummary, attachments, "AET", "20140101T000000", fault) :
                IndexCall("Store",
                          [dicomSummary |-> dicomSummary, attachments |-> attachments,
                           fault |-> fault],
                          [db |-> r.db, listener |-> listener, removedFiles |-> << >>,
                           result |-> r.status, target |-> JsonNull])

\* the instances stored where the status of a series matters: two instances
\* of one series that differ in the tags of the patient and of the series, and
\* one instance of another series
SeriesSummaries ==
  { [PatientID |-> "P1", StudyInstanceUID |-> "S1", SeriesInstanceUID |-> "Se1",
     SOPInstanceUID |-> "I1", PatientName |-> "A",
     InstanceNumber |-> i, NumberOfSlices |-> "2"] : i \in {"1", "2"} }
  \cup
  { [PatientID |-> "P1", StudyInstanceUID |-> "S1", SeriesInstanceUID |-> "Se1",
     SOPInstanceUID |-> "I2", PatientName |-> "B",
     InstanceNumber |-> i, NumberOfSlices |-> "3"] : i \in {"1", "2"} }
  \cup
  { [PatientID |-> "P1", StudyInstanceUID |-> "S1", SeriesInstanceUID |-> "Se2",
     SOPInstanceUID |-> "I1", PatientName |-> "B",
     InstanceNumber |-> "1", NumberOfSlices |-> "1"] }

DoStoreInSeries ==
  /\ Len(db.changes) < MaxSeriesChanges
  /\ \E dicomSummary \in SeriesSummaries :
       \E attachments \in {a \in AttachmentLists(dicomSummary) :
                             a # << >> /\ a[1].contentType # a[2].contentType} :
         \E r \in Store(db, dicomSummary, attachments, "AET", "20140101T000000", "None") :
           IndexCall("Store", [dicomSummary |-> dicomSummary, attachments |-> attachments],
                     [db |-> r.db, listener |-> listener, removedFiles |-> << >>,
                      result |-> r.status, target |-> JsonNull])

\* DeleteResource of a resource of one of these series
DoDeleteInSeries ==
  \E dicomSummary \in SeriesSummaries :
    \E uuid \in {HashPatient(dicomSummary), HashSeries(dicomSummary),
                  HashInstance(dicomSummary)} :
      IndexCall("DeleteResource", [uuid |-> uuid, expectedType |-> Len(uuid)],
                DeleteResource([db |-> db, listener |-> listener], uuid, Len(uuid)))

SeriesNext ==
  \/ DoStoreInSeries
  \/ DoDeleteInSeries

FaultNext ==
  \/ DoStoreFault
  \/ DoDeleteResource

----------------------------------------------------------------------------
(* The threads that call the index.  In the specifications below db is the  *)
(* database as its one connection shows it, the writes of the open          *)
(* transaction included.                                                     *)

\* boost::mutex that no thread holds
Unlocked == ""

\* the threads of the HTTP server that run the handlers
RequestThreads == {"t1", "t2"}
\* flushThread_
FlushWorker == "flush"
Threads == RequestThreads \cup {FlushWorker}

\* The steps of an operation in the order of its code.  "lock" is the
\* construction of the boost::mutex::scoped_lock and "unlock" its destruction
\* when the scope is left; every other step is one access to the database (or
\* to the listener, for "Reset").
StoreProgram ==
  <<"lock", "Begin", "CreateResource", "CreateHierarchy", "AddAttachment",
    "SetMetadata", "GetSeriesStatus", "Commit", "unlock">>

DeleteResourceProgram ==
  <<"lock", "Reset", "Begin", "DeleteResource", "Commit", "unlock">>

LookupResourceProgram_NoLock ==
  <<"LookupResource", "LookupParent", "GetChildrenPublicId">>

LookupResourceProgram ==
  <<"lock", "LookupResource", "LookupParent", "GetChildrenPublicId", "unlock">>

FlushThreadProgram_NoLock ==
  <<"sleep", "FlushToDisk">>

FlushThreadProgram ==
  <<"sleep", "lock", "FlushToDisk", "unlock">>

LogExportedResourceProgram ==
  <<"lock", "LogExportedResource", "unlock">>

Program(op) ==
  CASE op = "Store" -> StoreProgram
    [] op = "LogExportedResource" -> LogExportedResourceProgram
    [] op = "DeleteResource" -> DeleteResourceProgram
    [] op = "LookupResource" -> LookupResourceProgram
    [] op = "FlushThread" -> FlushThreadProgram
    [] OTHER -> << >>

\* the steps that access the database
DatabaseSteps ==
  {"Begin", "CreateResource", "CreateHierarchy", "AddAttachment", "SetMetadata",
   "GetSeriesStatus", "Commit", "DeleteResource", "LookupResource", "LookupParent",
   "GetChildrenPublicId", "FlushToDisk", "LogExportedResource"}

\* a request thread that is in no ServerIndex operation
Idle ==
  [op |-> "", pc |-> 1, args |-> [none |-> TRUE], result |-> "",
   begun |-> EmptyDatabase, locals |-> [none |-> TRUE]]

\* the step a thread is about to take: "idle" outside an operation, "return"
\* once the operation has left its last scope
StepOf(thread) ==
  IF thread.op = "" THEN "idle"
  ELSE IF thread.pc \in 1..Len(Program(thread.op)) THEN Program(thread.op)[thread.pc]
  ELSE "return"

Step(t) == StepOf(threads[t])

\* a return that leaves the function without the destruction of the lock, as
\* with a mutex locked and unlocked by hand
ScopeExit_LeavesLocked(op) == Len(Program(op)) + 1

\* where a return statement or an exception takes the thread: to the
\* destruction of the scoped_lock
ScopeExit(op) ==
  LET p == Program(op)
  IN IF \E i \in 1..Len(p) : p[i] = "unlock"
     THEN CHOOSE i \in 1..Len(p) : p[i] = "unlock"
     ELSE Len(p) + 1

\* the instances the request threads store: two of one series
ThreadSummaries ==
  {s \in Summaries :
     s.PatientID = "P1" /\ s.StudyInstanceUID = "S1" /\ s.SeriesInstanceUID = "Se1"
       /\ "InstanceNumber" \in DOMAIN s}

\* the files sent with them; the second instance is also sent with two files
\* of one content type
ThreadAttachments(dicomSummary) ==
  IF dicomSummary.SOPInstanceUID = "I1"
  THEN {a \in AttachmentLists(dicomSummary) :
          a # << >> /\ a[1].contentType # a[2].contentType}
  ELSE AttachmentLists(dicomSummary) \ {<< >>}

\* the public ids the request threads name: the series and its first instance
ThreadPublicIds ==
  UNION { {HashSeries(s), HashInstance(s)} :
            s \in {x \in ThreadSummaries : x.SOPInstanceUID = "I1"} }

\* a thread enters an operation
Enter(t, op, args) ==
  /\ t \in RequestThreads
  /\ Step(t) = "idle"
  /\ threads' = [threads EXCEPT ![t] = [Idle EXCEPT !.op = op, !.args = args]]
  /\ UNCHANGED <<httpVars, restVars, callbacks, alive, indexVars, mutex_>>

CallStore(t) ==
  /\ Len(db.changes) < MaxChanges
  /\ \E dicomSummary \in ThreadSummaries :
       \E attachments \in ThreadAttachments(dicomSummary) :
         Enter(t, "Store", [dicomSummary |-> dicomSummary, attachments |-> attachments])

CallDeleteResource(t) ==
  \E uuid \in ThreadPublicIds :
    Enter(t, "DeleteResource", [uuid |-> uuid, expectedType |-> Len(uuid)])

CallLookupResource(t) ==
  \E publicId \in ThreadPublicIds :
    Enter(t, "LookupResource", [publicId |-> publicId, expectedType |-> Len(publicId)])

\* boost::mutex::scoped_lock lock(mutex_): blocks while another thread holds it
Lock(t) ==
  /\ Step(t) = "lock"
  /\ mutex_ = Unlocked
  /\ mutex_' = t
  /\ threads' = [threads EXCEPT ![t].pc = @ + 1]
  /\ UNCHANGED <<httpVars, restVars, callbacks, alive, indexVars>>

\* ~scoped_lock
Unlock(t) ==
  /\ Step(t) = "unlock"
  /\ mutex_' = Unlocked
  /\ threads' = [threads EXCEPT ![t].pc = @ + 1, ![t].begun = EmptyDatabase]
  /\ UNCHANGED <<httpVars, restVars, callbacks, alive, indexVars>>

\* the operation returns to the handler
ReturnToHandler(t) ==
  /\ t \in RequestThreads
  /\ Step(t) = "return"
  /\ threads' = [threads EXCEPT ![t] = Idle]
  /\ UNCHANGED <<httpVars, restVars, callbacks, alive, indexVars, mutex_>>

\* one step of a thread inside an operation: the thread goes to pc with the
\* result and the local variables given, the database becomes d
Run(t, pc, result, locals, d) ==
  /\ threads' = [threads EXCEPT ![t].pc = pc, ![t].result = result, ![t].locals = locals]
  /\ db' = d
  /\ UNCHANGED <<httpVars, restVars, callbacks, alive, mutex_, indexCall>>

\* ServerIndex::Store, step by step
RunStore(t) ==
  LET th == threads[t]
      dicomSummary == th.args.dicomSummary
      instance == HashInstance(dicomSummary)
      series == HashSeries(dicomSummary)
      exit == ScopeExit(th.op)
  IN /\ th.op = "Store"
     /\ UNCHANGED <<listener, removedFiles>>
     /\ \/ /\ Step(t) = "Begin"
           /\ threads' = [threads EXCEPT
                ![t].begun = db,
                ![t].pc = IF AlreadyStored(db, dicomSummary) THEN exit ELSE @ + 1,
                ![t].result = IF AlreadyStored(db, dicomSummary) THEN "AlreadyStored" ELSE @]
           /\ db' = IF AlreadyStored(db, dicomSummary) THEN Rollback(db, db) ELSE db
           /\ UNCHANGED <<httpVars, restVars, callbacks, alive, mutex_, indexCall>>
        \/ /\ Step(t) = "CreateResource"
           /\ Run(t, th.pc + 1, th.result, th.locals,
                  Db_SetMainDicomTags(
                    Db_CreateResource(db, instance, ResourceType_Instance),
                    instance, ExtractInstanceInformation(dicomSummary)))
        \/ /\ Step(t) = "CreateHierarchy"
           /\ Run(t, th.pc + 1, th.result,
                  [isNewSeries |-> ~Db_LookupResource(db, series)],
                  CreateHierarchy(db, dicomSummary))
        \/ /\ Step(t) = "AddAttachment"
           /\ LET added == AddAttachments(db, instance, th.args.attachments)
              IN IF added.threw
                 THEN Run(t, exit, "Failure", th.locals, StoreCatch(th.begun, added.db))
                 ELSE Run(t, th.pc + 1, th.result, th.locals, added.db)
        \/ /\ Step(t) = "SetMetadata"
           /\ Run(t, th.pc + 1, th.result, th.locals,
                  AttachMetadata(db, dicomSummary, th.locals.isNewSeries,
                                 "AET", "20140101T000000"))
        \/ /\ Step(t) = "GetSeriesStatus"
           /\ \E children \in Orderings(Db_GetChildrenInternalId(db, series)) :
                Run(t, th.pc + 1, th.result, th.locals,
                    LogCompletedSeries(db, series, GetSeriesStatus(db, series, children)))
        \/ /\ Step(t) = "Commit"
           /\ Run(t, th.pc + 1, "Success", th.locals, Commit(th.begun, db))

\* ServerIndex::DeleteResource, step by step
RunDeleteResource(t) ==
  LET th == threads[t]
      uuid == th.args.uuid
  IN /\ th.op = "DeleteResource"
     /\ UNCHANGED <<httpVars, restVars, callbacks, alive, mutex_, indexCall>>
     /\ \/ /\ Step(t) = "Reset"
           /\ listener' = Reset(listener)
           /\ removedFiles' = << >>
           /\ threads' = [threads EXCEPT ![t].pc = @ + 1]
           /\ UNCHANGED db
        \/ /\ Step(t) = "Begin"
           /\ LET found == /\ Db_LookupResource(db, uuid)
                           /\ th.args.expectedType = Db_GetResourceType(db, uuid)
              IN /\ threads' = [threads EXCEPT
                      ![t].begun = db,
                      ![t].pc = IF found THEN @ + 1 ELSE ScopeExit(th.op),
                      ![t].result = IF found THEN @ ELSE "false"]
                 /\ db' = IF found THEN db ELSE Rollback(db, db)
           /\ UNCHANGED <<listener, removedFiles>>
        \/ /\ Step(t) = "DeleteResource"
           /\ LET del == Db_DeleteResource(db, uuid)
                  lc == Deliver([listener |-> listener, removedFiles |-> removedFiles],
                                del.signals)
              IN /\ db' = del.db
                 /\ listener' = lc.listener
                 /\ removedFiles' = lc.removedFiles
                 /\ threads' = [threads EXCEPT
                      ![t].pc = @ + 1,
                      ![t].locals = [target |-> RemainingAncestor(lc.listener)]]
        \/ /\ Step(t) = "Commit"
           /\ db' = Commit(th.begun, db)
           /\ threads' = [threads EXCEPT ![t].pc = @ + 1, ![t].result = "true"]
           /\ UNCHANGED <<listener, removedFiles>>

\* ServerIndex::LookupResource, step by step; the local variables keep what
\* the thread has read
RunLookupResource(t) ==
  LET th == threads[t]
      publicId == th.args.publicId
      present == Db_LookupResource(db, publicId)
      exit == ScopeExit(th.op)
  IN /\ th.op = "LookupResource"
     /\ UNCHANGED <<listener, removedFiles>>
     /\ \/ /\ Step(t) = "LookupResource"
           /\ IF present /\ Db_GetResourceType(db, publicId) = th.args.expectedType
              THEN Run(t, th.pc + 1, th.result, th.locals, db)
              ELSE Run(t, exit, "false", th.locals, db)
        \/ /\ Step(t) = "LookupParent"
           /\ IF th.args.expectedType = ResourceType_Patient
              THEN Run(t, th.pc + 1, th.result, [parent |-> Null], db)
              ELSE IF present /\ Db_LookupParent(db, publicId) # Null
                        /\ Db_LookupResource(db, Db_LookupParent(db, publicId))
              THEN Run(t, th.pc + 1, th.result,
                       [parent |-> Db_LookupParent(db, publicId)], db)
              ELSE Run(t, exit, "InternalError", th.locals, db)
        \/ /\ Step(t) = "GetChildrenPublicId"
           /\ IF /\ th.args.expectedType = ResourceType_Instance
                 /\ ~(present /\ Db_LookupAttachment(db, publicId, "Dicom"))
              THEN Run(t, exit, "InternalError", th.locals, db)
              ELSE Run(t, th.pc + 1, "true",
                       [parent |-> th.locals.parent,
                        children |-> Db_GetChildrenInternalId(db, publicId)], db)

\* FlushThread: the sleep is over
FlushSleep ==
  /\ Step(FlushWorker) = "sleep"
  /\ threads' = [threads EXCEPT ![FlushWorker].pc = @ + 1]
  /\ UNCHANGED <<httpVars, restVars, callbacks, alive, indexVars, mutex_>>

\* db->FlushToDisk(): the tables are as they were
FlushToDisk ==
  /\ Step(FlushWorker) = "FlushToDisk"
  /\ threads' = [threads EXCEPT ![FlushWorker].pc = @ + 1]
  /\ UNCHANGED <<httpVars, restVars, callbacks, alive, indexVars, mutex_>>

\* while (1)
FlushLoop ==
  /\ Step(FlushWorker) = "return"
  /\ threads' = [threads EXCEPT ![FlushWorker].pc = 1]
  /\ UNCHANGED <<httpVars, restVars, callbacks, alive, indexVars, mutex_>>

ThreadNext ==
  \/ \E t \in RequestThreads : CallStore(t)
  \/ \E t \in RequestThreads : CallDeleteResource(t)
  \/ \E t \in RequestThreads : CallLookupResource(t)
  \/ \E t \in Threads : Lock(t)
  \/ \E t \in Threads : Unlock(t)
  \/ \E t \in RequestThreads : ReturnToHandler(t)
  \/ \E t \in RequestThreads : RunStore(t)
  \/ \E t \in RequestThreads : RunDeleteResource(t)
  \/ \E t \in RequestThreads : RunLookupResource(t)
  \/ FlushSleep
  \/ FlushToDisk
  \/ FlushLoop

\* the constructor of ServerIndex has started the flush thread and no request
\* is being handled
ThreadInit ==
  /\ mutex_ = Unlocked
  /\ threads = [t \in Threads |->
                  IF t = FlushWorker THEN [Idle EXCEPT !.op = "FlushThread"] ELSE Idle]

\* no REST handler has run, no callback was delivered, the index exists
RestInit ==
  /\ anonymizationSequence = 0
  /\ restCall = [op |-> "None"]
  /\ callbacks = << >>
  /\ alive = TRUE

\* SpecHttp: the handlers' calls on one response, the index left alone
HttpOnlyInit ==
  /\ HttpInit
  /\ RestInit
  /\ db = EmptyDatabase
  /\ listener = ServerIndexListener(ResourceType_Patient)
  /\ removedFiles = << >>
  /\ indexCall = [op |-> "ServerIndex", args |-> [none |-> TRUE], result |-> "", target |-> JsonNull]
  /\ ThreadInit

SpecHttp == HttpOnlyInit /\ [][HttpNext]_vars

\* SpecHttpOutput: the same with the methods of HttpOutput
SpecHttpOutput == HttpOnlyInit /\ [][HttpOutputNext]_vars

\* SpecIndex: Store and DeleteResource on one index, no response written
IndexOnlyInit ==
  /\ IndexInit
  /\ RestInit
  /\ sm = StateMachine(FALSE, 0)
  /\ stream = << >>
  /\ httpCall = [op |-> "StateMachine", args |-> [none |-> TRUE], err |-> "None"]
  /\ httpPre = [sm |-> sm, stream |-> stream]
  /\ sendBodyCalled = FALSE
  /\ ThreadInit

SpecIndex == IndexOnlyInit /\ [][IndexNext]_vars

\* SpecFault: Store and DeleteResource on one index whose database may fail
SpecFault == IndexOnlyInit /\ [][FaultNext]_vars

\* SpecSeries: Store and DeleteResource on two series of one study
SeriesInit ==
  /\ IndexOnlyInit
  /\ listener = ServerIndexListener(ResourceType_Patient)

SpecSeries == SeriesInit /\ [][SeriesNext]_vars

\* SpecThreads: two request threads and the flush thread on one index
ThreadsInit ==
  /\ IndexOnlyInit
  /\ listener = ServerIndexListener(ResourceType_Patient)

SpecThreads == ThreadsInit /\ [][ThreadNext]_vars

----------------------------------------------------------------------------
(* Claims about the HTTP state machine, checked under SpecHttp *)

HeaderOps ==
  {"SetHttpStatus", "SetContentLength", "AddHeader", "ClearHeaders",
   "SetCookie", "SetContentType", "SetContentFilename"}

\* C1: SetHttpStatus, SetContentLength, AddHeader, ClearHeaders, SetCookie,
\* SetContentType and SetContentFilename each fail with BadSequenceOfCalls when
\* called in a state other than WritingHeader, and the state is other than
\* WritingHeader exactly when SendBody has been called (whether it left the
\* machine in WritingBody or in Done).
C1_HeaderCallsNeedWritingHeader ==
  /\ (httpCall.op \in HeaderOps /\ httpPre.sm.state_ # "WritingHeader")
        => httpCall.err = "BadSequenceOfCalls"
  /\ (sm.state_ # "WritingHeader") <=> sendBodyCalled

C1_Witness ==
  /\ httpCall.op = "SetContentType"
  /\ httpPre.sm.state_ = "Done"
  /\ httpCall.err = "BadSequenceOfCalls"

\* C2: with status 200 and a declared content length n, a SendBody call (first
\* or later) whose length would take the cumulative body bytes above n fails
\* with BadSequenceOfCalls.
C2_SendBodyBeyondDeclaredLengthFails ==
  (/\ httpCall.op = "SendBody"
   /\ httpPre.sm.status_ = HttpStatus_200_Ok
   /\ httpPre.sm.hasContentLength_
   /\ httpPre.sm.contentPosition_ + httpCall.args.length > httpPre.sm.contentLength_)
    => httpCall.err = "BadSequenceOfCalls"

C2_Witness ==
  /\ httpCall.op = "SendBody"
  /\ httpPre.sm.status_ = HttpStatus_200_Ok
  /\ httpPre.sm.hasContentLength_
  /\ httpPre.sm.state_ = "WritingBody"
  /\ httpPre.sm.contentPosition_ > 0
  /\ httpCall.args.length <= httpPre.sm.contentLength_
  /\ httpPre.sm.contentPosition_ + httpCall.args.length > httpPre.sm.contentLength_
  /\ httpCall.err = "BadSequenceOfCalls"

\* C3: with status 200 and a declared content length n, whenever the state is
\* Done the body bytes sent to the stream total n, and n is the Content-Length
\* written in the header.
C3_DoneMeansDeclaredLengthSent ==
  (/\ sm.state_ = "Done"
   /\ sm.status_ = HttpStatus_200_Ok
   /\ sm.hasContentLength_)
    => /\ BodyBytes(stream) = sm.contentLength_
       /\ Len(HeaderWrites(stream)) = 1
       /\ HeaderWrites(stream)[1].contentLength = sm.contentLength_

C3_Witness ==
  /\ sm.state_ = "Done"
  /\ sm.status_ = HttpStatus_200_Ok
  /\ sm.hasContentLength_
  /\ sm.contentLength_ = MaxLen
  /\ Len(stream) >= 4
  /\ BodyBytes(stream) = MaxLen

\* this call was the first SendBody of the response
FirstSendBody ==
  httpCall.op = "SendBody" /\ httpPre.sm.state_ = "WritingHeader"

\* the header that the last call wrote
WrittenHeader == HeaderWrites(stream)[Len(HeaderWrites(stream))]

\* C16: the Content-Length written by the first SendBody is the declared
\* length when SetContentLength was called and the status is 200, and the
\* length of that first chunk otherwise.
C16_ContentLengthOfFirstSendBody ==
  FirstSendBody =>
    /\ Len(HeaderWrites(stream)) = 1
    /\ WrittenHeader.contentLength
         = IF httpPre.sm.hasContentLength_ /\ httpPre.sm.status_ = HttpStatus_200_Ok
           THEN httpPre.sm.contentLength_
           ELSE httpCall.args.length

C16_Witness ==
  /\ FirstSendBody
  /\ httpPre.sm.hasContentLength_
  /\ httpPre.sm.status_ = HttpStatus_200_Ok
  /\ httpCall.args.length < httpPre.sm.contentLength_
  /\ httpCall.args.length > 0
  /\ WrittenHeader.contentLength = httpPre.sm.contentLength_

\* C17: when the status is not 200 a declared content length n is discarded:
\* the first SendBody of m bytes succeeds for every m, above or below n, and
\* the Content-Length written is the number of body bytes written over the
\* whole response.
C17_ErrorBodyIsNotTruncated ==
  /\ (FirstSendBody /\ httpPre.sm.status_ # HttpStatus_200_Ok)
       => httpCall.err = "None"
  /\ (sm.state_ # "WritingHeader" /\ sm.status_ # HttpStatus_200_Ok)
       => /\ Len(HeaderWrites(stream)) = 1
          /\ WrittenHeader.contentLength = BodyBytes(stream)

C17_Witness ==
  /\ FirstSendBody
  /\ httpPre.sm.status_ # HttpStatus_200_Ok
  /\ httpPre.sm.hasContentLength_
  /\ httpCall.args.length > httpPre.sm.contentLength_
  /\ httpCall.err = "None"
  /\ sm.state_ = "Done"
  /\ BodyBytes(stream) = httpCall.args.length
  /\ WrittenHeader.contentLength = httpCall.args.length

\* a content length is in force for the call: declared, and the status is 200
LengthInForce ==
  httpPre.sm.hasContentLength_ /\ httpPre.sm.status_ = HttpStatus_200_Ok

\* C18: after a SendBody that succeeds the state is Done iff no content length
\* is in force (none declared, or the status is not 200) or the body bytes
\* written so far equal the declared length, and WritingBody otherwise; so a
\* first SendBody of 0 bytes leaves WritingBody under a declared length above
\* 0 and reaches Done under a declared length of 0.
C18_DoneAfterSendBody ==
  (httpCall.op = "SendBody" /\ httpCall.err = "None")
    => /\ sm.state_ = "Done"
            <=> (~LengthInForce \/ BodyBytes(stream) = httpPre.sm.contentLength_)
       /\ sm.state_ \in {"Done", "WritingBody"}
       /\ (FirstSendBody /\ LengthInForce /\ httpCall.args.length = 0)
            => (sm.state_ = "Done" <=> httpPre.sm.contentLength_ = 0)

C18_Witness ==
  /\ FirstSendBody
  /\ httpCall.err = "None"
  /\ LengthInForce
  /\ httpCall.args.length = 0
  /\ httpPre.sm.contentLength_ > 0
  /\ sm.state_ = "WritingBody"

\* C19: once the state is Done, SendBody of a buffer that is not empty fails
\* with BadSequenceOfCalls and writes nothing to the stream, and SendBody of
\* length 0 succeeds and changes nothing: no write, the same state, the same
\* byte counter.
C19_SendBodyOnceDone ==
  (httpCall.op = "SendBody" /\ httpPre.sm.state_ = "Done")
    => /\ stream = httpPre.stream
       /\ sm = httpPre.sm
       /\ httpCall.err = IF httpCall.args.length > 0 THEN "BadSequenceOfCalls" ELSE "None"

C19_Witness ==
  /\ httpCall.op = "SendBody"
  /\ httpPre.sm.state_ = "Done"
  /\ httpCall.args.length > 0
  /\ httpCall.err = "BadSequenceOfCalls"
  /\ BodyBytes(stream) > 0
  /\ stream = httpPre.stream

----------------------------------------------------------------------------
(* Claims about HttpOutput, checked under SpecHttpOutput *)

\* C20: SendStatus(code) fails with ParameterOutOfRange for the codes 200, 301,
\* 401 and 405, with the state machine and the stream as they were; for
\* another code, called in WritingHeader, it drops the headers added before
\* and writes a whole response: that status, Content-Length 0, no body byte,
\* and the state is Done.
C20_SendStatus ==
  httpCall.op = "SendStatus" =>
    IF httpCall.args.status \in
         {HttpStatus_200_Ok, HttpStatus_301_MovedPermanently,
          HttpStatus_401_Unauthorized, HttpStatus_405_MethodNotAllowed}
    THEN /\ httpCall.err = "ParameterOutOfRange"
         /\ sm = httpPre.sm
         /\ stream = httpPre.stream
    ELSE httpPre.sm.state_ = "WritingHeader"
           => /\ httpCall.err = "None"
              /\ sm.state_ = "Done"
              /\ Len(HeaderWrites(stream)) = 1
              /\ WrittenHeader.status = httpCall.args.status
              /\ WrittenHeader.headers = << >>
              /\ WrittenHeader.contentLength = 0
              /\ BodyBytes(stream) = 0

C20_Witness ==
  /\ httpCall.op = "SendStatus"
  /\ httpCall.args.status = HttpStatus_404_NotFound
  /\ httpPre.sm.state_ = "WritingHeader"
  /\ Len(httpPre.sm.headers_) = 2
  /\ httpPre.sm.hasContentLength_
  /\ httpPre.sm.contentLength_ > 0
  /\ sm.state_ = "Done"
  /\ WrittenHeader.headers = << >>

----------------------------------------------------------------------------
(* Claims about the index, checked under SpecIndex *)

\* the rows of one kind
ResourcesOfType(d, resourceType) ==
  {x \in DOMAIN d.resources : d.resources[x].resourceType = resourceType}

\* the ancestors of a row, following the parent links
RECURSIVE AncestorsOf(_, _)
AncestorsOf(d, id) ==
  LET parent == d.resources[id].parentId
  IN IF parent = Null \/ parent \notin DOMAIN d.resources THEN {}
     ELSE {parent} \cup AncestorsOf(d, parent)

\* a row and the rows below it
Under(d, id) ==
  {x \in DOMAIN d.resources : x = id \/ id \in AncestorsOf(d, x)}

\* the attachments of a set of rows, as <<row, content type>>
AttachmentsOf(d, rows) ==
  {a \in rows \X {"Dicom", "DicomAsJson"} : a[2] \in DOMAIN d.attachedFiles[a[1]]}

\* this step is a call of DeleteResource(uuid, expectedType) that returns true
DeleteStep(expectedType) ==
  /\ indexCall'.op = "DeleteResource"
  /\ indexCall'.args.expectedType = expectedType
  /\ indexCall'.result = "true"

\* C4: Store of an instance whose HashInstance is already in the index returns
\* AlreadyStored and leaves the database (resources, hierarchy, main tags,
\* attachments, metadata, change log) as it was; so a Store right after a
\* successful Store of the same instance returns AlreadyStored and the number
\* of instances stays the same.
C4_StoreOfDuplicateIsNoOp ==
  [][ /\ (/\ indexCall'.op = "Store"
          /\ HashInstance(indexCall'.args.dicomSummary) \in DOMAIN db.resources)
        => (indexCall'.result = "AlreadyStored" /\ db' = db)
      /\ (/\ indexCall.op = "Store"
          /\ indexCall.result = "Success"
          /\ indexCall'.op = "Store"
          /\ HashInstance(indexCall'.args.dicomSummary) = HashInstance(indexCall.args.dicomSummary))
        => /\ indexCall'.result = "AlreadyStored"
           /\ ResourcesOfType(db', ResourceType_Instance)
                = ResourcesOfType(db, ResourceType_Instance) ]_vars

C4_Witness ==
  /\ indexCall.op = "Store"
  /\ indexCall.result = "AlreadyStored"
  /\ Cardinality(ResourcesOfType(db, ResourceType_Instance)) = 1
  /\ indexCall.args.attachments # << >>
  /\ db.attachedFiles[HashInstance(indexCall.args.dicomSummary)] = << >>

\* C5: in every committed state, a Patient has no parent, and every other
\* resource has one parent, which is in the index and whose kind is the one
\* level above (Instance -> Series, Series -> Study, Study -> Patient).
C5_ParentOneLevelAbove ==
  \A id \in DOMAIN db.resources :
    IF db.resources[id].resourceType = ResourceType_Patient
    THEN db.resources[id].parentId = Null
    ELSE /\ db.resources[id].parentId \in DOMAIN db.resources
         /\ db.resources[db.resources[id].parentId].resourceType
              = db.resources[id].resourceType - 1

C5_Witness ==
  /\ indexCall.op = "DeleteResource"
  /\ indexCall.result = "true"
  /\ Cardinality(ResourcesOfType(db, ResourceType_Instance)) = 2
  /\ Cardinality(ResourcesOfType(db, ResourceType_Patient)) = 1
  /\ Cardinality(ResourcesOfType(db, ResourceType_Study)) = 2

\* C6: DeleteResource on a Patient removes the patient and every study, series
\* and instance below it, sends one file-deleted signal to the file storage
\* for each attachment of the removed instances and no other, and reports
\* RemainingAncestor = null.
C6_DeletePatientCascades ==
  [][ DeleteStep(ResourceType_Patient) =>
        LET gone == Under(db, indexCall'.args.uuid)
            files == AttachmentsOf(db, gone)
        IN /\ gone \cap DOMAIN db'.resources = {}
           /\ Len(removedFiles') = Cardinality(files)
           /\ \A a \in files :
                Cardinality({i \in 1..Len(removedFiles') :
                               removedFiles'[i] = db.attachedFiles[a[1]][a[2]].uuid}) = 1
           /\ indexCall'.target = JsonNull ]_vars

C6_Witness ==
  /\ indexCall.op = "DeleteResource"
  /\ indexCall.args.expectedType = ResourceType_Patient
  /\ indexCall.result = "true"
  /\ Len(removedFiles) = 4
  /\ indexCall.target = JsonNull
  /\ DOMAIN db.resources # {}

\* no Patient, Study or Series without an Instance below it
NoEmptyAncestor ==
  \A id \in DOMAIN db.resources :
    \E x \in Under(db, id) : db.resources[x].resourceType = ResourceType_Instance

\* C7: after DeleteResource on a Series, its Study is still in the index iff
\* the Study had another Series, and its Patient is still in the index iff the
\* Patient still has a Study; and no committed state holds a Patient, Study or
\* Series without an Instance below it.
C7_AncestorCollapse ==
  /\ []NoEmptyAncestor
  /\ [][ DeleteStep(ResourceType_Series) =>
           LET series == indexCall'.args.uuid
               study == db.resources[series].parentId
               patient == db.resources[study].parentId
           IN /\ series \notin DOMAIN db'.resources
              /\ (study \in DOMAIN db'.resources)
                   <=> (\E other \in DOMAIN db.resources :
                          other # series /\ db.resources[other].parentId = study)
              /\ (patient \in DOMAIN db'.resources)
                   <=> (\E s \in DOMAIN db'.resources :
                          db'.resources[s].parentId = patient) ]_vars

C7_Witness ==
  /\ indexCall.op = "DeleteResource"
  /\ indexCall.args.expectedType = ResourceType_Series
  /\ indexCall.result = "true"
  /\ <<indexCall.args.uuid[1], indexCall.args.uuid[2]>> \notin DOMAIN db.resources
  /\ <<indexCall.args.uuid[1]>> \in DOMAIN db.resources

\* the ancestors of the deleted resource that are still in the index after
\* this step
SurvivingAncestors == AncestorsOf(db, indexCall'.args.uuid) \cap DOMAIN db'.resources

\* target["RemainingAncestor"] naming the row id
Descriptor(d, id) ==
  [Path |-> GetBasePath(d.resources[id].resourceType, id),
   Type |-> ToString(d.resources[id].resourceType),
   ID |-> id]

\* C8, as stated: the RemainingAncestor of a DeleteResource is the surviving
\* ancestor with the smallest kind under Patient < Study < Series < Instance,
\* and null iff no ancestor survives.
C8_RemainingIsSmallestKind ==
  [][ \A expectedType \in ResourceTypes :
        DeleteStep(expectedType) =>
          IF SurvivingAncestors = {}
          THEN indexCall'.target = JsonNull
          ELSE \E a \in SurvivingAncestors :
                 /\ \A b \in SurvivingAncestors :
                      db.resources[a].resourceType <= db.resources[b].resourceType
                 /\ indexCall'.target = Descriptor(db, a) ]_vars

\* C8, amended: the RemainingAncestor of a DeleteResource is the nearest
\* surviving ancestor of the deleted resource, the one with the largest kind
\* under Patient < Study < Series < Instance among the ancestors still in the
\* index after the cascade, and null iff no ancestor survives.
C8_RemainingIsNearestSurvivor ==
  [][ \A expectedType \in ResourceTypes :
        DeleteStep(expectedType) =>
          IF SurvivingAncestors = {}
          THEN indexCall'.target = JsonNull
          ELSE \E a \in SurvivingAncestors :
                 /\ \A b \in SurvivingAncestors :
                      db.resources[a].resourceType >= db.resources[b].resourceType
                 /\ indexCall'.target = Descriptor(db, a) ]_vars

C8_Witness ==
  /\ indexCall.op = "DeleteResource"
  /\ indexCall.args.expectedType = ResourceType_Instance
  /\ indexCall.result = "true"
  /\ indexCall.target # JsonNull
  /\ indexCall.target.Type = "Study"
  /\ db.resources[indexCall.target.ID].parentId \in DOMAIN db.resources

\* C9: when a study holds two series and one of them is deleted,
\* DeleteResource reports RemainingAncestor with Type Study and ID HashStudy
\* of that study, though the Patient survives as well.
C9_PartialDeleteReportsStudy ==
  [][ (/\ DeleteStep(ResourceType_Series)
       /\ \E other \in DOMAIN db.resources :
            /\ other # indexCall'.args.uuid
            /\ db.resources[other].parentId = db.resources[indexCall'.args.uuid].parentId)
        => LET uuid == indexCall'.args.uuid
               study == HashStudy([PatientID |-> uuid[1], StudyInstanceUID |-> uuid[2]])
           IN /\ indexCall'.target # JsonNull
              /\ indexCall'.target.Type = "Study"
              /\ indexCall'.target.ID = study
              /\ study \in DOMAIN db'.resources
              /\ <<uuid[1]>> \in DOMAIN db'.resources ]_vars

C9_Witness ==
  /\ indexCall.op = "DeleteResource"
  /\ indexCall.args.expectedType = ResourceType_Series
  /\ indexCall.result = "true"
  /\ indexCall.target # JsonNull
  /\ indexCall.target.Type = "Study"
  /\ indexCall.target.ID = <<indexCall.args.uuid[1], indexCall.args.uuid[2]>>
  /\ Cardinality(ResourcesOfType(db, ResourceType_Instance)) = 1
  /\ Cardinality(ResourcesOfType(db, ResourceType_Patient)) = 1

\* C10: in every committed state every Instance has exactly one attachment of
\* content type Dicom, whatever attachment list was passed to Store.
C10_EveryInstanceHasOneDicom ==
  \A id \in ResourcesOfType(db, ResourceType_Instance) :
    Db_LookupAttachment(db, id, "Dicom")

----------------------------------------------------------------------------
(* Claims about a failing database, checked under SpecFault *)

\* this step is a call of Store during which a database call throws
FailingStoreStep ==
  /\ indexCall'.op = "Store"
  /\ HashInstance(indexCall'.args.dicomSummary) \notin DOMAIN db.resources
  /\ \/ indexCall'.args.fault # "None"
     \/ /\ Len(indexCall'.args.attachments) = 2
        /\ indexCall'.args.attachments[1].contentType
             = indexCall'.args.attachments[2].contentType

\* C11: when a step of Store throws after the transaction has begun, between
\* the creation of the Instance row and the commit, Store returns Failure and
\* the committed database is the one before the call: no resource, parent
\* link, main tag, attachment, metadata or change row of the failed Store.
C11_FailedStoreRollsBack ==
  [][ FailingStoreStep => (indexCall'.result = "Failure" /\ db' = db) ]_vars

C11_Witness ==
  /\ indexCall.op = "Store"
  /\ indexCall.args.fault = "GetSeriesStatus"
  /\ indexCall.result = "Failure"
  /\ indexCall.args.attachments # << >>
  /\ HashSeries(indexCall.args.dicomSummary) \in DOMAIN db.resources
  /\ HashInstance(indexCall.args.dicomSummary) \notin DOMAIN db.resources

----------------------------------------------------------------------------
(* Claims about the threads, checked under SpecThreads *)

\* every row but a Patient has its parent in d, one level above it
CompleteHierarchy(d) ==
  \A id \in DOMAIN d.resources :
    IF d.resources[id].resourceType = ResourceType_Patient
    THEN d.resources[id].parentId = Null
    ELSE /\ d.resources[id].parentId \in DOMAIN d.resources
         /\ d.resources[d.resources[id].parentId].resourceType
              = d.resources[id].resourceType - 1

\* C12: with Store, DeleteResource and LookupResource running on different
\* threads, no LookupResource reads a partial hierarchy: while it reads, every
\* Instance has its Series, every Series its Study and every Study its
\* Patient; the parent it has read and the children it lists are in the
\* database; it never fails on a resource without its parent.
C12_LookupNeverSeesPartialHierarchy ==
  \A t \in RequestThreads :
    threads[t].op = "LookupResource" =>
      /\ threads[t].result # "InternalError"
      /\ Step(t) \in DatabaseSteps => CompleteHierarchy(db)
      /\ (Step(t) \in DatabaseSteps \cup {"unlock"} /\ "parent" \in DOMAIN threads[t].locals)
           => \/ threads[t].locals.parent = Null
              \/ /\ threads[t].locals.parent \in DOMAIN db.resources
                 /\ db.resources[threads[t].locals.parent].resourceType
                      = threads[t].args.expectedType - 1
      /\ (Step(t) = "unlock" /\ "children" \in DOMAIN threads[t].locals)
           => threads[t].locals.children \subseteq DOMAIN db.resources

C12_Witness ==
  \E t, u \in RequestThreads :
    /\ threads[t].op = "LookupResource"
    /\ threads[t].args.expectedType = ResourceType_Instance
    /\ Step(t) = "unlock"
    /\ threads[t].result = "true"
    /\ threads[t].locals.parent \in DOMAIN db.resources
    /\ threads[u].op = "Store"
    /\ Step(u) = "lock"
    /\ HashSeries(threads[u].args.dicomSummary) = threads[t].locals.parent

\* C13: at any time at most one thread, a ServerIndex operation or the flush
\* thread at FlushToDisk, is accessing the database; a thread holds mutex_
\* from its first access to its last; FlushToDisk never runs while a Store or
\* a DeleteResource is between the construction and the destruction of its
\* scoped_lock.
C13_MutualExclusion ==
  /\ \A t \in Threads :
       Step(t) \in DatabaseSteps \cup {"Reset", "unlock"} => mutex_ = t
  /\ \A t, u \in Threads :
       (Step(t) \in DatabaseSteps /\ Step(u) \in DatabaseSteps) => t = u
  /\ Step(FlushWorker) = "FlushToDisk"
       => \A t \in RequestThreads :
            threads[t].op \in {"Store", "DeleteResource"}
              => Step(t) \in {"lock", "return"}

C13_Witness ==
  \E t, u \in RequestThreads :
    /\ threads[t].op = "Store"
    /\ Step(t) = "Commit"
    /\ threads[u].op = "DeleteResource"
    /\ Step(u) = "lock"
    /\ Step(FlushWorker) = "lock"
    /\ mutex_ = t

----------------------------------------------------------------------------
(* Claims about resources that stay, checked under SpecSeries *)

\* what GetSeriesStatus may return for a series, in whichever order the
\* database lists its instances
SeriesStatuses(d, series) ==
  {GetSeriesStatus(d, series, children) :
     children \in Orderings(Db_GetChildrenInternalId(d, series))}

\* C14: a series whose status is Complete stays Complete through every
\* operation that neither adds an instance to it nor removes one from it; and
\* when an operation removes one instance from a Complete series that is still
\* in the index, its status becomes Missing or Inconsistent.
C14_CompleteSeries ==
  [][ \A series \in ResourcesOfType(db, ResourceType_Series) :
        (SeriesStatuses(db, series) = {"Complete"} /\ series \in DOMAIN db'.resources)
          => LET before == Db_GetChildrenInternalId(db, series)
                 after == Db_GetChildrenInternalId(db', series)
             IN /\ after = before => SeriesStatuses(db', series) = {"Complete"}
                /\ (after \subseteq before /\ Cardinality(after) = Cardinality(before) - 1)
                     => SeriesStatuses(db', series) \subseteq {"Missing", "Inconsistent"} ]_vars

\* an instance was deleted from a series of two that was Complete and that
\* another series has been stored next to
C14_Witness ==
  /\ indexCall.op = "DeleteResource"
  /\ indexCall.result = "true"
  /\ indexCall.args.expectedType = ResourceType_Instance
  /\ indexCall.target # JsonNull
  /\ indexCall.target.Type = "Series"
  /\ SeriesStatuses(db, indexCall.target.ID) = {"Missing"}
  /\ Cardinality({i \in 1..Len(db.changes) : db.changes[i].changeType = "CompletedSeries"}) = 2
  /\ Cardinality(ResourcesOfType(db, ResourceType_Series)) = 2

\* C15: a resource in the index keeps its parent and its MainDicomTags through
\* every Store, also the Store of a new instance of the same patient, study or
\* series whose tags at that level differ, until a delete removes it.
C15_ResourcesImmutable ==
  [][ indexCall'.op = "Store" =>
        \A id \in DOMAIN db.resources :
          /\ id \in DOMAIN db'.resources
          /\ db'.resources[id] = db.resources[id]
          /\ db'.mainDicomTags[id] = db.mainDicomTags[id] ]_vars

\* the second instance of a series was stored with another PatientName and
\* another NumberOfSlices than the first, which the patient and the series keep
C15_Witness ==
  /\ indexCall.op = "Store"
  /\ indexCall.result = "Success"
  /\ indexCall.args.dicomSummary.SOPInstanceUID = "I2"
  /\ Cardinality(Db_GetChildrenInternalId(db, HashSeries(indexCall.args.dicomSummary))) = 2
  /\ db.mainDicomTags[HashPatient(indexCall.args.dicomSummary)].PatientName
       # indexCall.args.dicomSummary.PatientName
  /\ db.mainDicomTags[HashSeries(indexCall.args.dicomSummary)].NumberOfSlices
       # indexCall.args.dicomSummary.NumberOfSlices

----------------------------------------------------------------------------
(* DicomModification: the tags a modification replaces, removes and keeps *)

\* the largest value of the anonymization sequence
MaxSequence == 3

MetadataType_ModifiedFrom == "ModifiedFrom"
MetadataType_AnonymizedFrom == "AnonymizedFrom"

\* the tags the anonymization profile removes, as far as the model has them
AnonymizationRemovals == {"StudyDescription"}

DicomModification ==
  [replacements |-> << >>, removals |-> {}, keeps |-> {},
   removePrivateTags |-> FALSE, level |-> ResourceType_Instance,
   allowManualIdentifiers |-> FALSE]

SetAllowManualIdentifiers(m, check) == [m EXCEPT !.allowManualIdentifiers = check]

SetRemovePrivateTags(m, removed) == [m EXCEPT !.removePrivateTags = removed]

SetLevel(m, level) == [m EXCEPT !.level = level]

IsReplaced(m, tag) == tag \in DOMAIN m.replacements

GetReplacement(m, tag) == m.replacements[tag]

\* a kept tag is exempt from what the profile does to it: it is neither
\* removed nor replaced any more
Modification_Keep(m, tag) ==
  [m EXCEPT !.keeps = @ \cup {tag},
            !.removals = @ \ {tag},
            !.replacements = Without(@, {tag})]

\* a removed tag is no longer replaced
Modification_Remove(m, tag) ==
  [m EXCEPT !.removals = @ \cup {tag},
            !.keeps = @ \ {tag},
            !.replacements = Without(@, {tag})]

Modification_Replace(m, tag, value) ==
  [m EXCEPT !.removals = @ \ {tag},
            !.keeps = @ \ {tag},
            !.replacements = Put(@, tag, value)]

\* the profile: new random PatientName and PatientID, the identifying tags
\* removed, the private tags removed, every identifier regenerated
SetupAnonymization(m, random) ==
  [m EXCEPT !.removals = AnonymizationRemovals,
            !.keeps = {},
            !.replacements = [tag \in {"PatientName", "PatientID"} |->
                                IF tag = "PatientName" THEN random.name ELSE random.id],
            !.removePrivateTags = TRUE,
            !.level = ResourceType_Patient]

\* ServerIndex::IncrementGlobalSequence: the counter after the call, which is
\* also the value returned
IncrementGlobalSequence(sequence) == sequence + 1

----------------------------------------------------------------------------
(* OrthancRestAnonymizeModify: the parsing of the request *)

TagOperation_Keep == "Keep"
TagOperation_Remove == "Remove"

\* lexical_cast<std::string> of a sequence number
SequenceDigits == <<"1", "2", "3", "4", "5", "6", "7", "8", "9">>

\* the outcome of a parsing step: the modification and the sequence once it
\* returns, or the error it threw
Parsed(result, target, sequence) ==
  [result |-> result, target |-> target, sequence |-> sequence]

RECURSIVE ApplyTagOperation(_, _, _)
ApplyTagOperation(target, tags, operation) ==
  IF tags = {} THEN target
  ELSE LET tag == CHOOSE t \in tags : TRUE
           next == IF operation = TagOperation_Keep
                   THEN Modification_Keep(target, tag)
                   ELSE Modification_Remove(target, tag)
       IN ApplyTagOperation(next, tags \ {tag}, operation)

\* ParseListOfTags: BadRequest unless the member is an array
ParseListOfTags(p, query, operation) ==
  IF p.result # "true" THEN p
  ELSE IF ~query.isArray THEN [p EXCEPT !.result = "BadRequest"]
  ELSE [p EXCEPT !.target = ApplyTagOperation(@, query.tags, operation)]

RECURSIVE ApplyReplacements(_, _)
ApplyReplacements(target, values) ==
  IF DOMAIN values = {} THEN target
  ELSE LET tag == CHOOSE t \in DOMAIN values : TRUE
       IN ApplyReplacements(Modification_Replace(target, tag, values[tag]),
                            Without(values, {tag}))

\* ParseReplacements: BadRequest unless the member is an object
ParseReplacements(p, replacements) ==
  IF p.result # "true" THEN p
  ELSE IF ~replacements.isObject THEN [p EXCEPT !.result = "BadRequest"]
  ELSE [p EXCEPT !.target = ApplyReplacements(@, replacements.values)]

GeneratePatientName(sequence) == "Anonymized" \o SequenceDigits[sequence]

StillRandomPatientName_IfReplaced(target, patientName) ==
  IsReplaced(target, "PatientName")

\* whether the PatientName of the profile is still the one to be written
StillRandomPatientName(target, patientName) ==
  /\ IsReplaced(target, "PatientName")
  /\ GetReplacement(target, "PatientName") = patientName

ParseAnonymizationRequest(target, request, random, sequence) ==
  LET t0 == SetupAnonymization(target, random)
      patientName == GetReplacement(t0, "PatientName")
      p0 == Parsed("true", t0, sequence)
      p1 == IF "KeepPrivateTags" \in request.members
            THEN [p0 EXCEPT !.target = SetRemovePrivateTags(@, FALSE)] ELSE p0
      p2 == IF "Remove" \in request.members
            THEN ParseListOfTags(p1, request.Remove, TagOperation_Remove) ELSE p1
      p3 == IF "Replace" \in request.members
            THEN ParseReplacements(p2, request.Replace) ELSE p2
      p4 == IF "Keep" \in request.members
            THEN ParseListOfTags(p3, request.Keep, TagOperation_Keep) ELSE p3
  IN IF request.isJson /\ request.isObject
     THEN IF p4.result # "true" THEN [p4 EXCEPT !.target = t0]
          ELSE IF StillRandomPatientName(p4.target, patientName)
          THEN LET seq == IncrementGlobalSequence(sequence)
               IN Parsed("true",
                         Modification_Replace(p4.target, "PatientName", GeneratePatientName(seq)),
                         seq)
          ELSE p4
     ELSE Parsed("false", t0, sequence)

----------------------------------------------------------------------------
(* OrthancRestAnonymizeModify: the handlers *)

\* the level of the resource that an identifier tag names
IdentifierLevel ==
  [tag \in {"PatientID", "StudyInstanceUID", "SeriesInstanceUID", "SOPInstanceUID"} |->
     CASE tag = "PatientID" -> ResourceType_Patient
       [] tag = "StudyInstanceUID" -> ResourceType_Study
       [] tag = "SeriesInstanceUID" -> ResourceType_Series
       [] tag = "SOPInstanceUID" -> ResourceType_Instance]

\* the UID that the generator of a modification maps a UID to
RegeneratedUid(uid) == "new." \o uid

\* DicomModification::Apply on the tags of a parsed file: BadRequest when an
\* identifier above the level is replaced without allowManualIdentifiers;
\* else the removals, the replacements, and a new UID at the level of the
\* modification and at every level below it, unless the request replaces it
Apply(m, dicom) ==
  LET forbidden == {tag \in DOMAIN IdentifierLevel \cap DOMAIN m.replacements :
                      IdentifierLevel[tag] < m.level}
      uids == {tag \in DOMAIN IdentifierLevel \ {"PatientID"} :
                 IdentifierLevel[tag] >= m.level /\ ~IsReplaced(m, tag)}
      kept == DOMAIN dicom \ (m.removals \ m.keeps)
  IN IF ~m.allowManualIdentifiers /\ forbidden # {}
     THEN [err |-> "BadRequest", dicom |-> dicom]
     ELSE [err |-> "None",
           dicom |-> [tag \in kept \cup DOMAIN m.replacements \cup uids |->
                        IF tag \in DOMAIN m.replacements THEN m.replacements[tag]
                        ELSE IF tag \in uids THEN RegeneratedUid(dicom[tag])
                        ELSE dicom[tag]]]

\* DicomInstanceToStore::AddMetadata
AddMetadata(toStore, level, metadata, value) ==
  [toStore EXCEPT !.metadata = @ \cup {<<level, metadata, value>>}]

AncestorMetadata_Always(toStore, level, metadataType, originalHash, modifiedHash) ==
  AddMetadata(toStore, level, metadataType, originalHash)

\* the entry of an ancestor level, added when its hash has changed
AncestorMetadata(toStore, level, metadataType, originalHash, modifiedHash) ==
  IF originalHash # modifiedHash
  THEN AddMetadata(toStore, level, metadataType, originalHash)
  ELSE toStore

\* the instance handed to ServerContext::Store for one child instance
PrepareToStore(modified, original, metadataType) ==
  LET t0 == [dicom |-> modified, metadata |-> {}, origin |-> HashInstance(original)]
      t1 == AncestorMetadata(t0, ResourceType_Series, metadataType,
                             HashSeries(original), HashSeries(modified))
      t2 == AncestorMetadata(t1, ResourceType_Study, metadataType,
                             HashStudy(original), HashStudy(modified))
      t3 == AncestorMetadata(t2, ResourceType_Patient, metadataType,
                             HashPatient(original), HashPatient(modified))
  IN AddMetadata(t3, ResourceType_Instance, metadataType, HashInstance(original))

\* Json::Value result(Json::objectValue)
EmptyObject == [object |-> TRUE]

NoAnswer == [sent |-> FALSE]

AnswerJson(result) == [sent |-> TRUE, json |-> result]

\* the id of the new resource of the requested type
NewId(resourceType, modified) ==
  CASE resourceType = ResourceType_Series -> HashSeries(modified)
    [] resourceType = ResourceType_Study -> HashStudy(modified)
    [] resourceType = ResourceType_Patient -> HashPatient(modified)

AfterFailedStore_NextInstance(acc) == acc

\* return, out of the loop and of the handler
AfterFailedStore(acc) == [acc EXCEPT !.returned = TRUE]

AfterFailedLock_Return(acc) == [acc EXCEPT !.returned = TRUE]

\* continue
AfterFailedLock(acc) == acc

\* the loop of AnonymizeOrModifyResource over the child instances from the
\* i-th on.  outcome[i] is what the server does with the i-th child: "Removed"
\* when the child cannot be locked any more, else the status that
\* ServerContext::Store returns for the modified instance.
RECURSIVE ModifyInstances(_, _, _, _, _, _, _)
ModifyInstances(modification, metadataType, resourceType, instances, outcome, i, acc) ==
  IF i > Len(instances) \/ acc.returned \/ acc.err # "None" THEN acc
  ELSE IF outcome[i] = "Removed"
  THEN ModifyInstances(modification, metadataType, resourceType, instances, outcome,
                       i + 1, AfterFailedLock(acc))
  ELSE LET original == instances[i]
           applied == Apply(modification, original)
           modified == applied.dicom
           toStore == PrepareToStore(modified, original, metadataType)
           stored == [acc EXCEPT !.stores = Append(@, [toStore |-> toStore,
                                                        status |-> outcome[i]])]
           newId == NewId(resourceType, modified)
           answered == IF stored.isFirst
                       THEN [stored EXCEPT
                               !.isFirst = FALSE,
                               !.result = [Type |-> ToString(resourceType),
                                           ID |-> newId,
                                           Path |-> GetBasePath(resourceType, newId),
                                           PatientID |-> HashPatient(modified)]]
                       ELSE stored
           next == IF applied.err # "None" THEN [acc EXCEPT !.err = applied.err]
                   ELSE IF outcome[i] # "Success" THEN AfterFailedStore(stored)
                   ELSE answered
       IN ModifyInstances(modification, metadataType, resourceType, instances, outcome,
                          i + 1, next)

\* AnonymizeOrModifyResource: what was handed to ServerContext::Store, in
\* order, the answer sent to the client and the error thrown
AnonymizeOrModifyResource(modification, metadataType, resourceType, instances, outcome) ==
  LET acc0 == [stores |-> << >>, isFirst |-> TRUE, result |-> EmptyObject,
               returned |-> FALSE, err |-> "None"]
      acc == ModifyInstances(modification, metadataType, resourceType, instances,
                             outcome, 1, acc0)
  IN IF instances = << >>
     THEN [stores |-> << >>, answer |-> NoAnswer, err |-> "None"]
     ELSE [stores |-> acc.stores,
           answer |-> IF acc.returned \/ acc.err # "None" THEN NoAnswer
                      ELSE AnswerJson(acc.result),
           err |-> acc.err]

\* AnonymizeOrModifyInstance: the file answered, or the error thrown when the
\* instance cannot be locked
AnonymizeOrModifyInstance(modification, instance, outcome) ==
  IF outcome = "Removed" THEN [err |-> "UnknownResource", answer |-> NoAnswer]
  ELSE LET applied == Apply(modification, instance)
       IN IF applied.err # "None" THEN [err |-> applied.err, answer |-> NoAnswer]
          ELSE [err |-> "None", answer |-> [sent |-> TRUE, dicom |-> applied.dicom]]

\* ParseModifyRequest
ParseModifyRequest(target, request, sequence) ==
  LET p0 == Parsed("true", target, sequence)
      p1 == IF "RemovePrivateTags" \in request.members
            THEN [p0 EXCEPT !.target = SetRemovePrivateTags(@, TRUE)] ELSE p0
      p2 == IF "Remove" \in request.members
            THEN ParseListOfTags(p1, request.Remove, TagOperation_Remove) ELSE p1
      p3 == IF "Replace" \in request.members
            THEN ParseReplacements(p2, request.Replace) ELSE p2
  IN IF request.isJson /\ request.isObject
     THEN IF p3.result # "true" THEN [p3 EXCEPT !.target = target] ELSE p3
     ELSE Parsed("false", target, sequence)

----------------------------------------------------------------------------
(* The requests of the anonymization and modification handlers *)

\* the tags a request names and the value it gives them
RequestTags == {"PatientName", "StudyDescription"}
UserValues == {"X"}

\* what SetupAnonymization draws: unique identifiers, which no request holds
RandomIdentities == {[name |-> "uid.name", id |-> "uid.id"]}

\* the value of "Remove" or "Keep" in a request
ListValues(tags) ==
  {[isArray |-> FALSE, tags |-> {}]} \cup {[isArray |-> TRUE, tags |-> S] : S \in SUBSET tags}

\* the value of "Replace" in a request
ObjectValues(tags) ==
  {[isObject |-> FALSE, values |-> << >>]}
    \cup {[isObject |-> TRUE, values |-> f] : f \in UNION {[S -> UserValues] : S \in SUBSET tags}}

AbsentList == [isArray |-> TRUE, tags |-> {}]
AbsentObject == [isObject |-> TRUE, values |-> << >>]

MemberNames == {"KeepPrivateTags", "RemovePrivateTags", "Remove", "Replace", "Keep"}

\* a body that is not JSON, and a JSON array
NotJson ==
  [isJson |-> FALSE, isObject |-> FALSE, members |-> {},
   Remove |-> AbsentList, Replace |-> AbsentObject, Keep |-> AbsentList]
JsonArray == [NotJson EXCEPT !.isJson = TRUE]

\* the JSON objects with these flags and these values of their members
JsonObjects(flags, removes, replaces, keeps) ==
  {b \in [isJson : {TRUE}, isObject : {TRUE},
          members : SUBSET (flags \cup {"Remove", "Replace", "Keep"}),
          Remove : removes, Replace : replaces, Keep : keeps] :
     /\ "Remove" \notin b.members => b.Remove = AbsentList
     /\ "Replace" \notin b.members => b.Replace = AbsentObject
     /\ "Keep" \notin b.members => b.Keep = AbsentList}

\* the bodies posted to /instances/{id}/anonymize
AnonymizeBodies ==
  {NotJson, JsonArray}
    \cup JsonObjects({"KeepPrivateTags"}, ListValues(RequestTags),
                     ObjectValues(RequestTags), ListValues(RequestTags))

\* the bodies posted to the handlers of series, studies and patients
ResourceBodies ==
  {NotJson}
    \cup JsonObjects({}, {AbsentList, [isArray |-> FALSE, tags |-> {}]},
                     {AbsentObject,
                      [isObject |-> TRUE, values |-> [tag \in {"PatientID"} |-> "X"]],
                      [isObject |-> TRUE, values |-> [tag \in {"PatientName"} |-> "X"]]},
                     {AbsentList, [isArray |-> TRUE, tags |-> {"PatientID"}]})

\* the instances of the index: two of one series, one of another series of
\* the same study
RestInstance(series, instance) ==
  [PatientID |-> "Pa1", PatientName |-> "A", StudyInstanceUID |-> "St1",
   StudyDescription |-> "D", SeriesInstanceUID |-> series, SOPInstanceUID |-> instance]

RestInstances ==
  {RestInstance("Se1", "I1"), RestInstance("Se1", "I2"), RestInstance("Se2", "I3")}

\* GetChildInstances: the instances below a resource of this type, which may
\* all have been removed
ChildInstances(resourceType) ==
  {s \in UNION {[1..n -> RestInstances] : n \in 0..2} :
     /\ \A i, j \in 1..Len(s) : i # j => s[i] # s[j]
     /\ resourceType = ResourceType_Series
          => \A i, j \in 1..Len(s) : s[i].SeriesInstanceUID = s[j].SeriesInstanceUID}

\* what happens to a child: it was removed in between, or it is locked and
\* the store of the modified instance returns this status
ChildOutcomes == {"Removed", "Success", "AlreadyStored", "Failure"}

\* a handler runs from the request to its return; restCall is the request
\* that the server is handling
RestCall(op, resourceType, body, random, instances, outcome, parsed, handled) ==
  /\ restCall' = [op |-> op, resourceType |-> resourceType, body |-> body,
                  random |-> random, instances |-> instances, outcome |-> outcome,
                  sequenceBefore |-> anonymizationSequence,
                  parsed |-> parsed, handled |-> handled]
  /\ anonymizationSequence' = parsed.sequence
  /\ UNCHANGED <<httpVars, indexVars, threadVars, callbacks, alive>>

\* the handler returns without an answer
NotHandled == [stores |-> << >>, answer |-> NoAnswer, err |-> "None"]

\* what the handler does once the request is parsed
Handled(parsed, handled) ==
  CASE parsed.result = "true" -> handled
    [] parsed.result = "false" -> NotHandled
    [] OTHER -> [NotHandled EXCEPT !.err = parsed.result]

\* POST /instances/{id}/anonymize
DoAnonymizeInstance ==
  /\ restCall.op = "None"
  /\ anonymizationSequence < MaxSequence
  /\ \E body \in AnonymizeBodies, random \in RandomIdentities,
        instance \in {RestInstance("Se1", "I1")}, outcome \in {"Removed", "Locked"} :
       LET modification == SetAllowManualIdentifiers(DicomModification, TRUE)
           parsed == ParseAnonymizationRequest(modification, body, random,
                                               anonymizationSequence)
           answered == AnonymizeOrModifyInstance(parsed.target, instance, outcome)
       IN RestCall("AnonymizeInstance", ResourceType_Instance, body, random,
                   <<instance>>, <<outcome>>, parsed,
                   Handled(parsed, [stores |-> << >>, answer |-> answered.answer,
                                    err |-> answered.err]))

\* POST /{series|studies|patients}/{id}/anonymize
DoAnonymizeResource ==
  /\ restCall.op = "None"
  /\ anonymizationSequence < MaxSequence
  /\ \E resourceType \in {ResourceType_Patient, ResourceType_Study, ResourceType_Series},
        body \in ResourceBodies, random \in RandomIdentities :
       \E instances \in ChildInstances(resourceType) :
         \E outcome \in [1..Len(instances) -> ChildOutcomes] :
           LET parsed == ParseAnonymizationRequest(DicomModification, body, random,
                                                   anonymizationSequence)
           IN RestCall("AnonymizeResource", resourceType, body, random, instances,
                       outcome, parsed,
                       Handled(parsed,
                               AnonymizeOrModifyResource(parsed.target,
                                                         MetadataType_AnonymizedFrom,
                                                         resourceType, instances, outcome)))

\* POST /{series|studies|patients}/{id}/modify
DoModifyResource ==
  /\ restCall.op = "None"
  /\ \E resourceType \in {ResourceType_Patient, ResourceType_Study, ResourceType_Series},
        body \in ResourceBodies, random \in RandomIdentities :
       \E instances \in ChildInstances(resourceType) :
         \E outcome \in [1..Len(instances) -> ChildOutcomes] :
           LET parsed == ParseModifyRequest(DicomModification, body, anonymizationSequence)
               target == SetLevel(parsed.target, resourceType)
           IN RestCall("ModifyResource", resourceType, body, random, instances,
                       outcome, parsed,
                       Handled(parsed,
                               AnonymizeOrModifyResource(target, MetadataType_ModifiedFrom,
                                                         resourceType, instances, outcome)))

\* the handler has returned and the server takes the next request
HandlerReturns ==
  /\ restCall.op # "None"
  /\ restCall' = [op |-> "None"]
  /\ UNCHANGED <<httpVars, indexVars, threadVars, anonymizationSequence, callbacks, alive>>

RestNext ==
  \/ DoAnonymizeInstance
  \/ DoAnonymizeResource
  \/ DoModifyResource
  \/ HandlerReturns

\* SpecRest: the anonymization and modification handlers on one server
SpecRest == IndexOnlyInit /\ [][RestNext]_vars

----------------------------------------------------------------------------
(* Claims about the anonymization and modification handlers, checked under *)
(* SpecRest                                                                *)

\* whether the request names the tag in its "Replace", "Keep" or "Remove"
Overrides(body, tag) ==
  /\ body.isJson /\ body.isObject
  /\ \/ "Replace" \in body.members /\ tag \in DOMAIN body.Replace.values
     \/ "Keep" \in body.members /\ tag \in body.Keep.tags
     \/ "Remove" \in body.members /\ tag \in body.Remove.tags

IsAnonymization == restCall.op \in {"AnonymizeInstance", "AnonymizeResource"}

\* C21: in an anonymization request, PatientName is overwritten with
\* "Anonymized" followed by the value of the AnonymizationSequence counter if
\* and only if the request does not override PatientName, that is, names it
\* in none of "Replace", "Keep" and "Remove"; the counter is incremented
\* exactly once by such a request, and not at all by a request that supplies
\* its own PatientName or whose body is rejected.
C21_AnonymizedPatientName ==
  IsAnonymization =>
    LET accepted == restCall.parsed.result = "true"
        target == restCall.parsed.target
        overwritten == /\ IsReplaced(target, "PatientName")
                       /\ anonymizationSequence > 0
                       /\ GetReplacement(target, "PatientName")
                            = GeneratePatientName(anonymizationSequence)
    IN /\ accepted =>
            /\ overwritten <=> ~Overrides(restCall.body, "PatientName")
            /\ anonymizationSequence =
                 IF Overrides(restCall.body, "PatientName")
                 THEN restCall.sequenceBefore ELSE restCall.sequenceBefore + 1
            /\ ("Replace" \in restCall.body.members
                  /\ "PatientName" \in DOMAIN restCall.body.Replace.values
                  /\ ~("Keep" \in restCall.body.members
                         /\ "PatientName" \in restCall.body.Keep.tags))
                 => GetReplacement(target, "PatientName")
                      = restCall.body.Replace.values["PatientName"]
       /\ ~accepted => anonymizationSequence = restCall.sequenceBefore

\* a request that replaces another tag only was given the second name of the
\* sequence
C21_Witness ==
  /\ restCall.op = "AnonymizeInstance"
  /\ restCall.parsed.result = "true"
  /\ restCall.body.members = {"Replace"}
  /\ DOMAIN restCall.body.Replace.values = {"StudyDescription"}
  /\ restCall.sequenceBefore = 1
  /\ GetReplacement(restCall.parsed.target, "PatientName") = "Anonymized2"

\* the hash of a parsed file at a level
HashAt(level, dicom) ==
  CASE level = ResourceType_Patient -> HashPatient(dicom)
    [] level = ResourceType_Study -> HashStudy(dicom)
    [] level = ResourceType_Series -> HashSeries(dicom)
    [] level = ResourceType_Instance -> HashInstance(dicom)

\* the metadata type that the handler of the last request attaches
MetadataTypeOf(op) ==
  IF op = "ModifyResource" THEN MetadataType_ModifiedFrom ELSE MetadataType_AnonymizedFrom

\* C22: for each child instance processed by a resource-level modify or
\* anonymize request and each level L among Series, Study and Patient, the
\* instance handed to the store carries a ModifiedFrom (modify) or
\* AnonymizedFrom (anonymize) entry with the original public id of level L if
\* and only if the original and the modified hash of level L differ; the
\* entry of the Instance level, with the original instance id, is always
\* there; and there is no other entry.
C22_ModifiedFromMetadata ==
  restCall.op \in {"ModifyResource", "AnonymizeResource"} =>
    \A k \in 1..Len(restCall.handled.stores) :
      LET toStore == restCall.handled.stores[k].toStore
          original == CHOOSE o \in RestInstances : HashInstance(o) = toStore.origin
          type == MetadataTypeOf(restCall.op)
          ancestors == {ResourceType_Series, ResourceType_Study, ResourceType_Patient}
      IN /\ \E i \in 1..Len(restCall.instances) : restCall.instances[i] = original
         /\ \A level \in ancestors :
              <<level, type, HashAt(level, original)>> \in toStore.metadata
                <=> HashAt(level, original) # HashAt(level, toStore.dicom)
         /\ <<ResourceType_Instance, type, HashInstance(original)>> \in toStore.metadata
         /\ toStore.metadata \subseteq
              {<<level, type, HashAt(level, original)>> :
                 level \in ancestors \cup {ResourceType_Instance}}

\* a series was modified: the new instance is linked to the original series
\* and instance, and to no study or patient, which are the same as before
C22_Witness ==
  /\ restCall.op = "ModifyResource"
  /\ restCall.resourceType = ResourceType_Series
  /\ Len(restCall.handled.stores) = 2
  /\ LET toStore == restCall.handled.stores[2].toStore
     IN /\ Cardinality(toStore.metadata) = 2
        /\ \E entry \in toStore.metadata : entry[1] = ResourceType_Series
        /\ HashStudy(toStore.dicom) = HashStudy(restCall.instances[2])
        /\ HashSeries(toStore.dicom) # HashSeries(restCall.instances[2])

\* C29: in the loop of a resource-level modify or anonymize request, a child
\* instance that cannot be locked because it was removed in between is
\* skipped, and the children after it are still modified and handed to the
\* store, in order; the first store that does not return Success ends the
\* loop, no later child is handed to the store and no JSON answer is sent;
\* when every store succeeds, the JSON answer is sent once the loop is over.
C29_LoopOverInstances ==
  (/\ restCall.op \in {"ModifyResource", "AnonymizeResource"}
   /\ restCall.parsed.result = "true"
   /\ restCall.handled.err = "None") =>
    LET n == Len(restCall.instances)
        outcome == restCall.outcome
        stores == restCall.handled.stores
        failed == {i \in 1..n : outcome[i] \notin {"Removed", "Success"}}
        last == IF failed = {} THEN n ELSE CHOOSE i \in failed : \A j \in failed : i <= j
        Locked(i) == i <= last /\ outcome[i] # "Removed"
        expected == SelectSeq([i \in 1..n |-> i], Locked)
    IN /\ Len(stores) = Len(expected)
       /\ \A k \in 1..Len(expected) :
            /\ stores[k].toStore.origin = HashInstance(restCall.instances[expected[k]])
            /\ stores[k].status = outcome[expected[k]]
       /\ restCall.handled.answer.sent <=> (n > 0 /\ failed = {})

\* the first child was removed in between and the second one was stored: the
\* answer names the resource made from the second child
C29_Witness ==
  /\ restCall.op = "AnonymizeResource"
  /\ restCall.parsed.result = "true"
  /\ restCall.outcome = <<"Removed", "Success">>
  /\ Len(restCall.handled.stores) = 1
  /\ restCall.handled.stores[1].toStore.origin = HashInstance(restCall.instances[2])
  /\ restCall.handled.answer.sent
  /\ restCall.handled.answer.json.ID
       = NewId(restCall.resourceType, restCall.handled.stores[1].toStore.dicom)

\* the store of the first child returned AlreadyStored: the second child was
\* not handed to the store and nothing was answered
C29_WitnessFailedStore ==
  /\ restCall.op = "ModifyResource"
  /\ restCall.outcome = <<"AlreadyStored", "Success">>
  /\ Len(restCall.handled.stores) = 1
  /\ ~restCall.handled.answer.sent

----------------------------------------------------------------------------
(* GetSeriesStatus on the series that Store can leave in the database *)

\* the largest number of instances of the series
MaxInstances == 3

\* no such metadata on the resource
Absent == NoValue

\* the metadata that Store copies from the tags of an instance: absent, not
\* a number, or an integer
MetadataValues == {Absent, "x", "-1", "0", "1", "2", "3"}

StatusSeries == <<"Pa1", "St1", "Se1">>
StatusInstance(i) == <<"Pa1", "St1", "Se1", i>>

SetMetadataIfAny(d, id, type, value) ==
  IF value = Absent THEN d ELSE Db_SetMetadata(d, id, type, value)

\* the database with one series of Len(indices) instances, the i-th of which
\* has the index indices[i]
RECURSIVE SeriesDatabase(_, _, _)
SeriesDatabase(expected, indices, i) ==
  IF i = 0
  THEN SetMetadataIfAny(Db_CreateResource(EmptyDatabase, StatusSeries, ResourceType_Series),
                        StatusSeries, "Series_ExpectedNumberOfInstances", expected)
  ELSE SetMetadataIfAny(
         Db_AttachChild(
           Db_CreateResource(SeriesDatabase(expected, indices, i - 1),
                             StatusInstance(i), ResourceType_Instance),
           StatusSeries, StatusInstance(i)),
         StatusInstance(i), "Instance_IndexInSeries", indices[i])

\* ServerIndex::GetSeriesStatus, the database listing the children in order
DoGetSeriesStatus ==
  \E children \in Orderings(Db_GetChildrenInternalId(db, StatusSeries)) :
    IndexCall("GetSeriesStatus", [id |-> StatusSeries, children |-> children],
              [db |-> db, listener |-> listener, removedFiles |-> removedFiles,
               result |-> GetSeriesStatus(db, StatusSeries, children),
               target |-> JsonNull])

StatusNext == DoGetSeriesStatus

StatusInit ==
  /\ \E expected \in MetadataValues :
       \E indices \in UNION {[1..n -> MetadataValues] : n \in 1..MaxInstances} :
         db = SeriesDatabase(expected, indices, Len(indices))
  /\ listener = ServerIndexListener(ResourceType_Patient)
  /\ removedFiles = << >>
  /\ indexCall = [op |-> "ServerIndex", args |-> [none |-> TRUE], result |-> "", target |-> JsonNull]
  /\ RestInit
  /\ sm = StateMachine(FALSE, 0)
  /\ stream = << >>
  /\ httpCall = [op |-> "StateMachine", args |-> [none |-> TRUE], err |-> "None"]
  /\ httpPre = [sm |-> sm, stream |-> stream]
  /\ sendBodyCalled = FALSE
  /\ ThreadInit

\* SpecStatus: GetSeriesStatus on one series
SpecStatus == StatusInit /\ [][StatusNext]_vars

----------------------------------------------------------------------------
(* Claims about GetSeriesStatus, checked under SpecStatus *)

\* the integer that a metadata value stands for, if it is one
IsNumeric(value) == value \in {"-1", "0", "1", "2", "3"}
NumberOf(value) ==
  CASE value = "-1" -> -1 [] value = "0" -> 0 [] value = "1" -> 1
    [] value = "2" -> 2 [] value = "3" -> 3

ExpectedOf(d) == Db_GetMetadata(d, StatusSeries, "Series_ExpectedNumberOfInstances")
IndexOf(d, child) == Db_GetMetadata(d, child, "Instance_IndexInSeries")
StatusChildren(d) == Db_GetChildrenInternalId(d, StatusSeries)

\* C23: GetSeriesStatus returns Unknown whenever the expected number of
\* instances is missing or not numeric, or any child instance has a missing
\* or non-numeric index, whatever the indices of the other children and the
\* order in which the children are listed.
C23_UnknownWhateverTheOrder ==
  indexCall.op = "GetSeriesStatus" =>
    ((\/ ~IsNumeric(ExpectedOf(db))
      \/ \E child \in StatusChildren(db) : ~IsNumeric(IndexOf(db, child)))
       => indexCall.result = "Unknown")

\* what the code does: Unknown when the expected number is bad, or when a
\* child with a bad index is listed before every child whose index is out of
\* range or already seen
C23_UnknownUpToTheFirstOffender ==
  indexCall.op = "GetSeriesStatus" =>
    LET children == indexCall.args.children
        expected == LexicalCast(ExpectedOf(db))
        index(i) == LexicalCast(IndexOf(db, children[i]))
        Offends(i) == \/ index(i) <= 0 \/ index(i) > expected
                      \/ \E j \in 1..(i - 1) : index(j) = index(i)
    IN indexCall.result = "Unknown" <=>
         \/ expected = BadLexicalCast
         \/ \E i \in 1..Len(children) :
              /\ index(i) = BadLexicalCast
              /\ \A j \in 1..(i - 1) : index(j) # BadLexicalCast /\ ~Offends(j)

\* C24: when the expected number and the index of every child are numeric,
\* GetSeriesStatus returns Inconsistent if an index is <= 0 or greater than
\* the expected number or two children have the same index, else Complete if
\* the number of distinct indices is the expected number, else Missing; so
\* Complete means that the indices are exactly 1..expected.
C24_StatusOfNumericSeries ==
  (/\ indexCall.op = "GetSeriesStatus"
   /\ IsNumeric(ExpectedOf(db))
   /\ \A child \in StatusChildren(db) : IsNumeric(IndexOf(db, child))) =>
    LET expected == NumberOf(ExpectedOf(db))
        indices == {NumberOf(IndexOf(db, child)) : child \in StatusChildren(db)}
        inconsistent ==
          \/ \E i \in indices : i <= 0 \/ i > expected
          \/ Cardinality(indices) # Cardinality(StatusChildren(db))
    IN /\ indexCall.result =
            IF inconsistent THEN "Inconsistent"
            ELSE IF Cardinality(indices) = expected THEN "Complete" ELSE "Missing"
       /\ indexCall.result = "Complete" => indices = 1..expected

----------------------------------------------------------------------------
(* Claims about the change log, checked under SpecFault *)

\* the positions of the CompletedSeries rows that a step appends
CompletedSeriesAdded(before, after) ==
  {k \in (Len(before.changes) + 1)..Len(after.changes) :
     after.changes[k].changeType = "CompletedSeries"}

\* C25: Store appends a CompletedSeries change for the series of the new
\* instance if and only if it returns Success and GetSeriesStatus of that
\* series, the instance inserted, is Complete; it appends at most one; a Store
\* that returns AlreadyStored or Failure leaves the change log as it was.  A
\* single instance with InstanceNumber 1 and NumberOfSlices 1 completes its
\* series.
C25_CompletedSeriesLogged ==
  [][ indexCall'.op = "Store" =>
        LET series == HashSeries(indexCall'.args.dicomSummary)
            added == CompletedSeriesAdded(db, db')
        IN /\ added # {} <=> (/\ indexCall'.result = "Success"
                              /\ SeriesStatuses(db', series) = {"Complete"})
           /\ Cardinality(added) <= 1
           /\ \A k \in added : db'.changes[k].publicId = series
           /\ indexCall'.result # "Success" => db'.changes = db.changes
           /\ (/\ indexCall'.result = "Success"
               /\ ~Db_LookupResource(db, series)
               /\ TestAndGetValue(indexCall'.args.dicomSummary, "InstanceNumber") = "1"
               /\ TestAndGetValue(indexCall'.args.dicomSummary, "NumberOfSlices") = "1")
                => added # {} ]_vars

\* the first instance of a series, with InstanceNumber 1 and NumberOfSlices 1,
\* was stored and the last row of the change log is the CompletedSeries of
\* its series
C25_Witness ==
  /\ indexCall.op = "Store"
  /\ indexCall.result = "Success"
  /\ indexCall.args.dicomSummary.InstanceNumber = "1"
  /\ indexCall.args.dicomSummary.NumberOfSlices = "1"
  /\ Cardinality(Db_GetChildrenInternalId(db, HashSeries(indexCall.args.dicomSummary))) = 1
  /\ db.changes[Len(db.changes)].changeType = "CompletedSeries"
  /\ db.changes[Len(db.changes)].publicId = HashSeries(indexCall.args.dicomSummary)

\* a second instance was stored with the index of the first one: Success, and
\* no CompletedSeries row for it
C25_WitnessNotComplete ==
  /\ indexCall.op = "Store"
  /\ indexCall.result = "Success"
  /\ Cardinality(Db_GetChildrenInternalId(db, HashSeries(indexCall.args.dicomSummary))) = 2
  /\ db.changes[Len(db.changes)].changeType = "NewInstance"

----------------------------------------------------------------------------
(* The listener under any callbacks, and under the deletes of one index *)

\* the largest number of callbacks between two calls of Reset
MaxCallbacks == 3

\* the public ids that the callbacks name
CallbackIds == {<<"P1">>, <<"P1", "S1">>}

\* ServerIndexListener::Reset
DoReset ==
  /\ listener' = Reset(listener)
  /\ callbacks' = << >>
  /\ UNCHANGED <<httpVars, restVars, threadVars, db, removedFiles, indexCall, alive>>

\* ServerIndexListener::SignalRemainingAncestor
DoSignalRemainingAncestor ==
  /\ Len(callbacks) < MaxCallbacks
  /\ \E parentType \in ResourceTypes \ {ResourceType_Instance}, publicId \in CallbackIds :
       /\ listener' = SignalRemainingAncestor(listener, parentType, publicId)
       /\ callbacks' = Append(callbacks, [parentType |-> parentType, publicId |-> publicId])
  /\ UNCHANGED <<httpVars, restVars, threadVars, db, removedFiles, indexCall, alive>>

\* the SignalRemainingAncestor callbacks among the signals of the database
RemainingAncestorSignals(signals) ==
  LET IsRemainingAncestor(s) == s.signal = "RemainingAncestor"
      selected == SelectSeq(signals, IsRemainingAncestor)
  IN [i \in 1..Len(selected) |->
        [parentType |-> selected[i].parentType, publicId |-> selected[i].publicId]]

\* Store of one of two instances of one series
DoStoreOfSeries ==
  /\ Len(db.changes) < MaxChanges
  /\ \E dicomSummary \in ThreadSummaries :
       \E attachments \in {a \in AttachmentLists(dicomSummary) :
                             a # << >> /\ a[1].contentType # a[2].contentType} :
         \E r \in Store(db, dicomSummary, attachments, "AET", "20140101T000000", "None") :
           IndexCall("Store", [dicomSummary |-> dicomSummary, attachments |-> attachments],
                     [db |-> r.db, listener |-> listener, removedFiles |-> << >>,
                      result |-> r.status, target |-> JsonNull])

\* DeleteResource of that series or of one of its instances, on the listener
\* as the callbacks before left it
DoDeleteOfSeries ==
  \E dicomSummary \in ThreadSummaries :
    \E uuid \in {HashSeries(dicomSummary), HashInstance(dicomSummary)} :
      LET r == DeleteResource([db |-> db, listener |-> listener], uuid, Len(uuid))
      IN /\ db' = r.db
         /\ listener' = r.listener
         /\ removedFiles' = r.removedFiles
         /\ indexCall' = [op |-> "DeleteResource",
                          args |-> [uuid |-> uuid, expectedType |-> Len(uuid)],
                          result |-> r.result, target |-> r.target]
         /\ callbacks' = IF r.result = "true"
                         THEN RemainingAncestorSignals(Db_DeleteResource(db, uuid).signals)
                         ELSE << >>
         /\ UNCHANGED <<httpVars, restVars, threadVars, alive>>

ListenerNext ==
  \/ DoReset
  \/ DoSignalRemainingAncestor
  \/ DoStoreOfSeries
  \/ DoDeleteOfSeries

\* SpecListener: one listener, the callbacks it may get and the deletes
SpecListener == IndexOnlyInit /\ [][ListenerNext]_vars

----------------------------------------------------------------------------
(* Claims about the listener, checked under SpecListener *)

\* the position of the callback with the smallest kind, the earliest of them
SmallestKind(s) ==
  CHOOSE i \in 1..Len(s) :
    \A j \in 1..Len(s) :
      \/ s[i].parentType < s[j].parentType
      \/ s[i].parentType = s[j].parentType /\ i <= j

\* C26: after Reset and any sequence of SignalRemainingAncestor callbacks,
\* HasRemainingLevel is true if and only if the sequence is not empty, and the
\* kind and the id recorded are those of the callback with the smallest kind,
\* the earliest one among equals; DeleteResource resets the listener first,
\* so its RemainingAncestor is taken from the callbacks of that delete alone
\* and an ancestor recorded before never shows in it.
C26_ListenerKeepsSmallestKind ==
  /\ [](/\ listener.hasRemainingLevel_ <=> callbacks # << >>
        /\ callbacks # << >> =>
             /\ listener.remainingType_ = callbacks[SmallestKind(callbacks)].parentType
             /\ listener.remainingPublicId_ = callbacks[SmallestKind(callbacks)].publicId)
  /\ [][ (/\ indexCall' # indexCall
          /\ indexCall'.op = "DeleteResource"
          /\ indexCall'.result = "true") =>
           LET s == RemainingAncestorSignals(
                      Db_DeleteResource(db, indexCall'.args.uuid).signals)
           IN IF s = << >> THEN indexCall'.target = JsonNull
              ELSE /\ indexCall'.target # JsonNull
                   /\ indexCall'.target.ID = s[SmallestKind(s)].publicId
                   /\ indexCall'.target.Type = ToString(s[SmallestKind(s)].parentType) ]_vars

\* three callbacks since the last Reset, the smallest kind given twice with
\* two ids: the listener holds the id given first
C26_Witness ==
  /\ Len(callbacks) = 3
  /\ callbacks[1].parentType = ResourceType_Series
  /\ callbacks[2].parentType = ResourceType_Study
  /\ callbacks[3].parentType = ResourceType_Study
  /\ callbacks[2].publicId # callbacks[3].publicId
  /\ listener.hasRemainingLevel_
  /\ listener.remainingPublicId_ = callbacks[2].publicId

\* the last instance of the index was deleted after callbacks had named a
\* patient: no remaining ancestor is reported
C26_WitnessDelete ==
  /\ indexCall.op = "DeleteResource"
  /\ indexCall.result = "true"
  /\ indexCall.target = JsonNull
  /\ DOMAIN db.resources = {}
  /\ listener.remainingType_ = ResourceType_Patient
  /\ listener.remainingPublicId_ # << >>

----------------------------------------------------------------------------
(* ServerIndex::LogExportedResource *)

\* the largest number of rows of the export log
MaxExports == 2

\* DatabaseWrapper::LogExportedResource: one row appended to the export log
Db_LogExportedResource(d, resourceType, publicId, remoteModality, ids) ==
  [d EXCEPT !.exportedResources =
     Append(@, [seq |-> Len(@) + 1, resourceType |-> resourceType,
                publicId |-> publicId, remoteModality |-> remoteModality,
                patientId |-> ids[ResourceType_Patient],
                studyInstanceUid |-> ids[ResourceType_Study],
                seriesInstanceUid |-> ids[ResourceType_Series],
                sopInstanceUid |-> ids[ResourceType_Instance]])]

\* the tag read at a level and the level the walk goes to next
MainIdentifier(resourceType) ==
  CASE resourceType = ResourceType_Patient -> "PatientID"
    [] resourceType = ResourceType_Study -> "StudyInstanceUID"
    [] resourceType = ResourceType_Series -> "SeriesInstanceUID"
    [] resourceType = ResourceType_Instance -> "SOPInstanceUID"

LevelAbove(resourceType) ==
  CASE resourceType = ResourceType_Study -> ResourceType_Patient
    [] resourceType = ResourceType_Series -> ResourceType_Study
    [] resourceType = ResourceType_Instance -> ResourceType_Series

\* the step to the parent stands inside assert(): it is taken in a build that
\* compiles the assertions and left out in a build with NDEBUG
ParentStep(d, currentId, assertions) ==
  IF assertions THEN Db_LookupParent(d, currentId) ELSE currentId

\* the loop of LogExportedResource: the identifiers collected, the number of
\* rounds, and the error of DicomMap::GetValue when the tag is not in the map
RECURSIVE ExportWalk(_, _, _, _, _, _)
ExportWalk(d, currentId, currentType, ids, steps, assertions) ==
  LET map == d.mainDicomTags[currentId]
      tag == MainIdentifier(currentType)
  IN IF tag \notin DOMAIN map
     THEN [err |-> "InexistentTag", ids |-> ids, steps |-> steps + 1]
     ELSE LET found == [ids EXCEPT ![currentType] = map[tag]]
          IN IF currentType = ResourceType_Patient
             THEN [err |-> "None", ids |-> found, steps |-> steps + 1]
             ELSE ExportWalk(d, ParentStep(d, currentId, assertions),
                             LevelAbove(currentType), found, steps + 1, assertions)

LogExportedResource(d, publicId, remoteModality, assertions) ==
  IF ~Db_LookupResource(d, publicId)
  THEN [db |-> d, err |-> "InternalError", steps |-> 0]
  ELSE LET type == Db_GetResourceType(d, publicId)
           walk == ExportWalk(d, publicId, type, [t \in ResourceTypes |-> ""], 0,
                              assertions)
       IN IF walk.err # "None"
          THEN [db |-> d, err |-> walk.err, steps |-> walk.steps]
          ELSE [db |-> Db_LogExportedResource(d, type, publicId, remoteModality, walk.ids),
                err |-> "None", steps |-> walk.steps]

\* the instances exported: one in each of two studies of a patient
ExportSummaries ==
  {s \in Summaries :
     /\ s.PatientID = "P1" /\ s.SeriesInstanceUID = "Se1" /\ s.SOPInstanceUID = "I1"
     /\ "InstanceNumber" \notin DOMAIN s}

ExportPublicIds ==
  UNION {{HashPatient(s), HashStudy(s), HashSeries(s), HashInstance(s)} :
           s \in ExportSummaries}

DoStoreForExport ==
  /\ Len(db.changes) < MaxChanges
  /\ \E dicomSummary \in ExportSummaries :
       \E attachments \in {a \in AttachmentLists(dicomSummary) :
                             a # << >> /\ a[1].contentType # a[2].contentType} :
         \E r \in Store(db, dicomSummary, attachments, "AET", "20140101T000000", "None") :
           IndexCall("Store", [dicomSummary |-> dicomSummary, attachments |-> attachments],
                     [db |-> r.db, listener |-> listener, removedFiles |-> << >>,
                      result |-> r.status, target |-> JsonNull])

\* ServerIndex::LogExportedResource, in a build with or without assertions
DoLogExportedResource ==
  /\ Len(db.exportedResources) < MaxExports
  /\ \E publicId \in ExportPublicIds, assertions \in BOOLEAN :
       LET r == LogExportedResource(db, publicId, "MODALITY", assertions)
       IN IndexCall("LogExportedResource",
                    [publicId |-> publicId, remoteModality |-> "MODALITY",
                     assertions |-> assertions, steps |-> r.steps],
                    [db |-> r.db, listener |-> listener, removedFiles |-> removedFiles,
                     result |-> r.err, target |-> JsonNull])

ExportNext ==
  \/ DoStoreForExport
  \/ DoLogExportedResource

\* SpecExport: Store and LogExportedResource on one index
SpecExport == IndexOnlyInit /\ [][ExportNext]_vars

----------------------------------------------------------------------------
(* Claims about the export log, checked under SpecExport *)

\* the resource itself or its ancestor at a level
AtLevel(d, id, level) ==
  CHOOSE a \in {id} \cup AncestorsOf(d, id) : d.resources[a].resourceType = level

\* what the claim requires of a call of LogExportedResource
C27_ExportStep ==
      (/\ indexCall'.op = "LogExportedResource"
       /\ Db_LookupResource(db, indexCall'.args.publicId)) =>
        LET publicId == indexCall'.args.publicId
            type == Db_GetResourceType(db, publicId)
            Identifier(level) ==
              IF level <= type
              THEN db.mainDicomTags[AtLevel(db, publicId, level)][MainIdentifier(level)]
              ELSE ""
        IN /\ indexCall'.result = "None"
           /\ indexCall'.args.steps <= 4
           /\ Len(db'.exportedResources) = Len(db.exportedResources) + 1
           /\ SubSeq(db'.exportedResources, 1, Len(db.exportedResources))
                = db.exportedResources
           /\ LET row == db'.exportedResources[Len(db'.exportedResources)]
              IN /\ row.resourceType = type
                 /\ row.publicId = publicId
                 /\ row.patientId = Identifier(ResourceType_Patient)
                 /\ row.studyInstanceUid = Identifier(ResourceType_Study)
                 /\ row.seriesInstanceUid = Identifier(ResourceType_Series)
                 /\ row.sopInstanceUid = Identifier(ResourceType_Instance)

\* C27: LogExportedResource of a resource of the index appends exactly one
\* row to the export log; its identifier of the level of the resource and of
\* every level above is the main identifier read from the resource or from
\* its ancestor at that level, its identifiers of the levels below are
\* empty, and the walk ends at the Patient level after at most four rounds.
C27_ExportRow == [][C27_ExportStep]_vars

\* the same holds of a build that compiles the assertions
C27_ExportRowWithAssertions ==
  [][ (indexCall'.op = "LogExportedResource" /\ indexCall'.args.assertions)
        => C27_ExportStep ]_vars

----------------------------------------------------------------------------
(* The flush thread and the destructor of ServerIndex *)

\* ServerIndex::~ServerIndex, called when no request is being handled: it
\* logs, and neither stops the flush thread nor waits for it; then the
\* members are destroyed, the database and the mutex among them
DestroyServerIndex ==
  /\ alive
  /\ \A t \in RequestThreads : Step(t) = "idle"
  /\ alive' = FALSE
  /\ UNCHANGED <<httpVars, restVars, callbacks, indexVars, threadVars>>

\* the flush thread uses the mutex or the database of a destroyed index: the
\* step may go on as on the live objects, which Lock, FlushToDisk and Unlock
\* describe, or end the thread
FlushAfterDestruction ==
  /\ ~alive
  /\ Step(FlushWorker) \in {"lock", "FlushToDisk", "unlock"}
  /\ threads' = [threads EXCEPT ![FlushWorker] = Idle]
  /\ mutex_' = IF mutex_ = FlushWorker THEN Unlocked ELSE mutex_
  /\ UNCHANGED <<httpVars, restVars, callbacks, alive, indexVars>>

\* a request thread looks a resource up while the index is there
CallLookupWhileAlive(t) ==
  /\ alive
  /\ CallLookupResource(t)

ShutdownNext ==
  \/ \E t \in RequestThreads : CallLookupWhileAlive(t)
  \/ \E t \in Threads : Lock(t)
  \/ \E t \in Threads : Unlock(t)
  \/ \E t \in RequestThreads : ReturnToHandler(t)
  \/ \E t \in RequestThreads : RunLookupResource(t)
  \/ FlushSleep
  \/ FlushToDisk
  \/ FlushLoop
  \/ DestroyServerIndex
  \/ FlushAfterDestruction

\* SpecShutdown: the flush thread, two request threads and the destructor
SpecShutdown == IndexOnlyInit /\ [][ShutdownNext]_vars

----------------------------------------------------------------------------
(* Claims about the flush thread, checked under SpecShutdown *)

\* the flush thread takes the step named
FlushStep(step) ==
  /\ Step(FlushWorker) = step
  /\ threads'[FlushWorker].pc = threads[FlushWorker].pc + 1

\* while the index is alive the flush thread goes round sleep, lock,
\* FlushToDisk and unlock, and it flushes with the lock held
C28_FlushLoopWhileAlive ==
  /\ [](Step(FlushWorker) \in {"FlushToDisk", "unlock"} => mutex_ = FlushWorker)
  /\ [][ (alive /\ threads'[FlushWorker] # threads[FlushWorker]) =>
           \/ FlushStep("sleep") /\ Step(FlushWorker)' = "lock"
           \/ FlushStep("lock") /\ mutex_ = Unlocked /\ Step(FlushWorker)' = "FlushToDisk"
           \/ FlushStep("FlushToDisk") /\ Step(FlushWorker)' = "unlock"
           \/ FlushStep("unlock") /\ mutex_' = Unlocked /\ Step(FlushWorker)' = "return"
           \/ Step(FlushWorker) = "return" /\ Step(FlushWorker)' = "sleep" ]_vars

\* C28: the flush worker repeats sleep, lock, FlushToDisk, release for as
\* long as the index is alive, each FlushToDisk with the lock held, and it
\* stops when the index is shut down: once the ServerIndex is destroyed, the
\* worker acquires the lock no more and calls FlushToDisk no more.
C28_FlushStopsAtShutdown ==
  /\ C28_FlushLoopWhileAlive
  /\ [][ ~alive => ~(FlushStep("lock") \/ FlushStep("FlushToDisk")) ]_vars

----------------------------------------------------------------------------
(* Claims about the order of the writes, checked under SpecHttpOutput *)

StateRank(state) ==
  CASE state = "WritingHeader" -> 1
    [] state = "WritingBody" -> 2
    [] state = "Done" -> 3

\* C30: the state of the state machine only advances, from WritingHeader to
\* WritingBody to Done and never back; the header block is written to the
\* stream at most once, and before every byte of the body.
C30_HeaderOnceAndFirst ==
  /\ [][StateRank(sm'.state_) >= StateRank(sm.state_)]_vars
  /\ [](/\ Len(HeaderWrites(stream)) <= 1
        /\ \A i \in 1..Len(stream) :
             IsBodyWrite(stream[i]) =>
               \E j \in 1..(i - 1) : IsHeaderWrite(stream[j])
        /\ sm.state_ = "WritingHeader" <=> HeaderWrites(stream) = << >>
        /\ Len(stream) <= Len(httpPre.stream) + 3
        /\ SubSeq(stream, 1, Len(httpPre.stream)) = httpPre.stream)

\* the body was sent in two chunks after one header, and the response is done
C30_Witness ==
  /\ sm.state_ = "Done"
  /\ Len(HeaderWrites(stream)) = 1
  /\ IsHeaderWrite(stream[2])
  /\ Len(stream) = 4
  /\ IsBodyWrite(stream[3])
  /\ IsBodyWrite(stream[4])

----------------------------------------------------------------------------
(* Claims about a rejected SendBody, checked under SpecHttp *)

\* the last call was a SendBody that was thrown out for exceeding the declared
\* length (the other throw of SendBody is the one of the state Done)
RejectedForLength ==
  /\ httpCall.op = "SendBody"
  /\ httpCall.err = "BadSequenceOfCalls"
  /\ httpPre.sm.state_ # "Done"

\* C31: a SendBody call rejected because it would exceed the declared length
\* writes no body bytes and does not advance the byte counter; if it is the
\* first SendBody of the response, the status line and the headers, with
\* Content-Length equal to the declared length, have been written to the
\* stream all the same and the state is WritingBody afterwards, so that the
\* status and the headers can no longer be changed.
C31_RejectedSendBody ==
  /\ [](RejectedForLength =>
          /\ httpPre.sm.hasContentLength_
          /\ httpPre.sm.contentPosition_ + httpCall.args.length
               > httpPre.sm.contentLength_
          /\ BodyBytes(stream) = BodyBytes(httpPre.stream)
          /\ sm.contentPosition_ = httpPre.sm.contentPosition_
          /\ sm.state_ = "WritingBody"
          /\ sm.status_ = httpPre.sm.status_
          /\ sm.headers_ = httpPre.sm.headers_
          /\ IF httpPre.sm.state_ = "WritingHeader"
             THEN /\ Len(stream) = Len(httpPre.stream) + 2
                  /\ SubSeq(stream, 1, Len(httpPre.stream)) = httpPre.stream
                  /\ stream[Len(stream) - 1]
                       = [onHttpStatusReceived |-> httpPre.sm.status_]
                  /\ IsHeaderWrite(stream[Len(stream)])
                  /\ stream[Len(stream)].status = httpPre.sm.status_
                  /\ stream[Len(stream)].headers = httpPre.sm.headers_
                  /\ stream[Len(stream)].contentLength = httpPre.sm.contentLength_
             ELSE /\ stream = httpPre.stream
                  /\ sm = httpPre.sm)
  /\ [][ sm.state_ = "WritingBody" =>
           /\ sm'.status_ = sm.status_
           /\ sm'.headers_ = sm.headers_
           /\ HeaderWrites(stream') = HeaderWrites(stream)
           /\ (httpCall'.op \in HeaderOps => httpCall'.err = "BadSequenceOfCalls") ]_vars

\* the first SendBody of a response was rejected after headers were added: the
\* header is on the stream with the declared length and no body follows it
C31_Witness ==
  /\ RejectedForLength
  /\ httpPre.sm.state_ = "WritingHeader"
  /\ httpPre.sm.headers_ # << >>
  /\ httpPre.stream = << >>
  /\ sm.state_ = "WritingBody"
  /\ Len(stream) = 2
  /\ IsHeaderWrite(stream[2])
  /\ stream[2].contentLength = httpPre.sm.contentLength_
  /\ httpCall.args.length = MaxLen

\* after such a rejection, a call that would change the status has failed
C31_WitnessStatusKept ==
  /\ httpCall.op = "SetHttpStatus"
  /\ httpCall.err = "BadSequenceOfCalls"
  /\ httpPre.sm.state_ = "WritingBody"
  /\ httpPre.sm.contentPosition_ = 0
  /\ httpPre.sm.contentLength_ = 0
  /\ sm = httpPre.sm
  /\ stream = httpPre.stream

\* a SendBody after the first was rejected and left the stream as it was
C31_WitnessLater ==
  /\ RejectedForLength
  /\ httpPre.sm.state_ = "WritingBody"
  /\ httpPre.sm.contentPosition_ > 0
  /\ stream = httpPre.stream

----------------------------------------------------------------------------
(* The lock of the index under fair scheduling *)

\* the instance the request threads store, and the files sent with it: a
\* valid list, and one with two files of one content type, which makes
\* AddAttachment throw
LockSummaries == {s \in ThreadSummaries : s.SOPInstanceUID = "I1"}

LockAttachments(dicomSummary) == AttachmentLists(dicomSummary) \ {<< >>}

\* the resources the request threads name: the series they delete, the
\* instance they look up, and for the export a patient that the index does
\* not know
LockSeries == {HashSeries(s) : s \in LockSummaries}

LockInstances == {HashInstance(s) : s \in LockSummaries}

LockExportIds == {<<"P9">>}

\* the request threads store while the index has logged no change: both may
\* be storing the instance at once, and one may store it again after a Store
\* that failed
LockCallStore(t) ==
  /\ db.changes = << >>
  /\ \E dicomSummary \in LockSummaries :
       \E attachments \in LockAttachments(dicomSummary) :
         Enter(t, "Store", [dicomSummary |-> dicomSummary, attachments |-> attachments])

LockCallDeleteResource(t) ==
  \E uuid \in LockSeries :
    Enter(t, "DeleteResource", [uuid |-> uuid, expectedType |-> Len(uuid)])

LockCallLookupResource(t) ==
  \E publicId \in LockInstances :
    Enter(t, "LookupResource", [publicId |-> publicId, expectedType |-> Len(publicId)])

CallLogExportedResource(t) ==
  \E publicId \in LockExportIds :
    Enter(t, "LogExportedResource",
          [publicId |-> publicId, remoteModality |-> "MODALITY", assertions |-> TRUE])

\* ServerIndex::LogExportedResource under its lock: it returns, or throws
\* InternalError for a resource the index does not know; either way the
\* thread leaves the scope of the lock
RunLogExportedResource(t) ==
  LET th == threads[t]
      r == LogExportedResource(db, th.args.publicId, th.args.remoteModality,
                               th.args.assertions)
  IN /\ th.op = "LogExportedResource"
     /\ Step(t) = "LogExportedResource"
     /\ UNCHANGED <<listener, removedFiles>>
     /\ Run(t, ScopeExit(th.op), r.err, th.locals, r.db)

\* a step of a request thread inside an operation
ThreadStep(t) ==
  \/ Lock(t)
  \/ Unlock(t)
  \/ ReturnToHandler(t)
  \/ RunStore(t)
  \/ RunDeleteResource(t)
  \/ RunLookupResource(t)
  \/ RunLogExportedResource(t)

\* a step of the flush thread
FlushThreadStep ==
  \/ Lock(FlushWorker)
  \/ Unlock(FlushWorker)
  \/ FlushSleep
  \/ FlushToDisk
  \/ FlushLoop

LockNext ==
  \/ \E t \in RequestThreads : LockCallStore(t)
  \/ \E t \in RequestThreads : LockCallDeleteResource(t)
  \/ \E t \in RequestThreads : LockCallLookupResource(t)
  \/ \E t \in RequestThreads : CallLogExportedResource(t)
  \/ \E t \in RequestThreads : ThreadStep(t)
  \/ FlushThreadStep

\* the operating system runs every thread that can take a step
ThreadsScheduled ==
  /\ \A t \in RequestThreads : WF_vars(ThreadStep(t))
  /\ WF_vars(FlushThreadStep)

\* and a thread blocked on the mutex gets it if the mutex is free again and
\* again: no thread is passed over for ever.  A thread that is not blocked
\* can always take its step, so that this adds to ThreadsScheduled for the
\* threads at their lock only.
FairScheduling ==
  /\ \A t \in RequestThreads : SF_vars(ThreadStep(t))
  /\ SF_vars(FlushThreadStep)

\* SpecLock: two request threads and the flush thread, fairly scheduled
SpecLock == ThreadsInit /\ [][LockNext]_vars /\ FairScheduling

\* the same when the mutex may pass a blocked thread over for ever
SpecLockUnordered == ThreadsInit /\ [][LockNext]_vars /\ ThreadsScheduled

----------------------------------------------------------------------------
(* Claims about the lock of the index, checked under SpecLock *)

\* the steps of a thread outside the scope of its scoped_lock
OutsideLock == {"idle", "lock", "sleep", "return"}

\* a thread holds the mutex exactly between the construction and the
\* destruction of its scoped_lock: it is released on every exit path, and no
\* thread that holds it comes to lock it again
LockHeldInScopeOnly ==
  /\ \A t \in Threads : mutex_ = t <=> Step(t) \notin OutsideLock
  /\ \A t \in RequestThreads :
       threads[t].result # "" => Step(t) \in {"unlock", "return"}

\* the thread that holds the mutex can take its next step, whichever threads
\* are waiting: no interleaving deadlocks
HolderCanStep ==
  /\ \A t \in RequestThreads : mutex_ = t => ENABLED ThreadStep(t)
  /\ mutex_ = FlushWorker => ENABLED FlushThreadStep
  /\ mutex_ = Unlocked => \A t \in Threads : Step(t) = "lock" => ENABLED Lock(t)

C32_WitnessException ==
  \E t \in RequestThreads :
    /\ threads[t].op = "LogExportedResource"
    /\ threads[t].result = "InternalError"
    /\ Step(t) = "return"
    /\ mutex_ = Unlocked

\* DeleteResource and LookupResource have left by their return false
C32_WitnessReturnFalse ==
  \E t, u \in RequestThreads :
    /\ threads[t].op = "DeleteResource"
    /\ threads[t].result = "false"
    /\ Step(t) = "return"
    /\ threads[u].op = "LookupResource"
    /\ threads[u].result = "false"
    /\ Step(u) = "return"
    /\ mutex_ = Unlocked

====
